---- MODULE Spec2Model ----
(***************************************************************************)
(* LangDefLib: the profile-driven language detector of                     *)
(* src/LangDefLib/LangDefLib.py (class LanguageData, class LangDetector),  *)
(* the detector of src/LangDefLib/external.py (class ExternalDetector)     *)
(* that asks the fastText and langdetect libraries, and the earlier        *)
(* Russian / Ukrainian classifier of src/LangLib.py (class LangDetector).  *)
(*                                                                         *)
(* Representation.                                                         *)
(*  - A Python str is a sequence of characters; a character is a TLA+      *)
(*    string.  A Cyrillic letter is written as its Latin transliteration,  *)
(*    one token per letter: a b v g d e yo zh z k l m n o p r s t u f h c  *)
(*    ch sh sch yu ya, and                                                 *)
(*      ii   U+0438      j    U+0439      y    U+044B      eh  U+044D      *)
(*      hard U+044A      soft U+044C      gg   U+0491      ye  U+0454      *)
(*      i    U+0456      yi   U+0457                                       *)
(*    The upper-case letter of a token is the token in capitals.           *)
(*  - A Python list is a sequence; a Python dict is a sequence of          *)
(*    [k, v] entries in insertion order (dicts iterate in that order).     *)
(*  - A list *object* lives in `heap`; a detector's `languages` attribute  *)
(*    holds a reference into the heap, since __init__ stores the list it   *)
(*    is given (or the class attribute DEFAULT_LANGUAGES) without copying. *)
(*  - Weights and scores are floats in the source; here they are integers  *)
(*    in tenths (2.0 -> 20, 1.2 -> 12) and a confidence is the exact       *)
(*    fraction <<numerator, denominator>>.  min_confidence is in           *)
(*    hundredths.  Floating-point rounding is not modelled.                *)
(*  - No language data file exists on disk (the repository ships no data   *)
(*    directory), so _load_language_data takes its built-in branch.        *)
(***************************************************************************)
EXTENDS Integers, Sequences, FiniteSets, TLC

(***************************************************************************)
(* Bounds of the model.                                                    *)
(***************************************************************************)
\* longest input text made of letters only, in characters
MaxLen == 3
\* most add_language / remove_language calls in one run
MaxMutations == 2

(***************************************************************************)
(* Characters.                                                             *)
(***************************************************************************)
LowerLetters ==
    {"a", "b", "v", "g", "gg", "d", "e", "yo", "zh", "z", "ii", "i", "yi",
     "j", "k", "l", "m", "n", "o", "p", "r", "s", "t", "u", "f", "h", "c",
     "ch", "sh", "sch", "hard", "y", "soft", "eh", "yu", "ya", "ye"}

\* str.lower() on the upper-case letters the inputs use
UpperToLower == ("Y" :> "y") @@ ("I" :> "i") @@ ("N" :> "n")

Digits == {"0", "1", "2", "3", "4", "5", "6", "7", "8", "9"}

\* the characters the regular expression class \s matches
Whitespace == {" ", "\t", "\n"}

\* the characters the regular expression class \w matches
WordChars == LowerLetters \cup DOMAIN UpperToLower \cup Digits \cup {"_"}

\* the letters input texts are drawn from: an upper-case letter unique to
\* Russian, a letter unique to Ukrainian, a letter both languages use
Alphabet == {"Y", "i", "n"}

RECURSIVE SeqsUpTo(_, _)
SeqsUpTo(S, n) ==
    IF n = 0 THEN {<<>>}
    ELSE LET shorter == SeqsUpTo(S, n - 1)
         IN  shorter \cup {Append(s, c) : s \in {t \in shorter : Len(t) = n - 1}, c \in S}

\* input texts with punctuation and whitespace in them
SeparatedTexts ==
    {<<",">>, <<" ">>, <<",", " ">>, <<"\t", "\n">>, <<" ", ",", " ">>,
     <<"i", ",", "n">>, <<"n", " ", "Y">>, <<" ", "i", "\n">>,
     <<"n", "n", ",", " ", "i">>, <<"Y", "\t", " ", "n", "!">>,
     <<"i", "_", "n">>}

Texts == SeqsUpTo(Alphabet, MaxLen) \cup SeparatedTexts

\* An argument passed as `text`: a str, or some other Python object
\* (None, 0, 5, [1]) of which only the truth value matters to the code.
StrInput(s) == [isStr |-> TRUE, truthy |-> s # <<>>, chars |-> s]
NonStrInputs ==
    {[isStr |-> FALSE, truthy |-> b, chars |-> <<>>] : b \in BOOLEAN}
Inputs == {StrInput(s) : s \in Texts} \cup NonStrInputs

(***************************************************************************)
(* Text normalisation: LangDetector._clean_text, str.split.                *)
(***************************************************************************)
lower(c) == IF c \in DOMAIN UpperToLower THEN UpperToLower[c] ELSE c

\* re.sub(r'[^\w\s]', ' ', text)
SubPunctuation(text) ==
    [i \in 1..Len(text) |->
        IF text[i] \in WordChars \cup Whitespace THEN text[i] ELSE " "]

\* re.sub(r'\s+', ' ', text): every maximal run of whitespace becomes one space
RECURSIVE SubSpaces(_)
SubSpaces(text) ==
    IF text = <<>> THEN <<>>
    ELSE IF Head(text) \in Whitespace
         THEN IF Len(text) > 1 /\ text[2] \in Whitespace
              THEN SubSpaces(Tail(text))
              ELSE <<" ">> \o SubSpaces(Tail(text))
         ELSE <<Head(text)>> \o SubSpaces(Tail(text))

\* str.strip()
RECURSIVE lstrip(_)
lstrip(text) ==
    IF text # <<>> /\ Head(text) \in Whitespace THEN lstrip(Tail(text)) ELSE text

RECURSIVE rstrip(_)
rstrip(text) ==
    IF text # <<>> /\ text[Len(text)] \in Whitespace
    THEN rstrip(SubSeq(text, 1, Len(text) - 1))
    ELSE text

strip(text) == rstrip(lstrip(text))

_clean_text(text) ==
    LET lowered == [i \in 1..Len(text) |-> lower(text[i])]
    IN  strip(SubSpaces(SubPunctuation(lowered)))

\* str.split() without arguments: the maximal runs of non-whitespace
RECURSIVE SplitFrom(_, _, _)
SplitFrom(text, i, word) ==
    IF i > Len(text)
    THEN IF word = <<>> THEN <<>> ELSE <<word>>
    ELSE IF text[i] \in Whitespace
         THEN IF word = <<>> THEN SplitFrom(text, i + 1, <<>>)
              ELSE <<word>> \o SplitFrom(text, i + 1, <<>>)
         ELSE SplitFrom(text, i + 1, Append(word, text[i]))

split(text) == SplitFrom(text, 1, <<>>)

\* str.endswith
endswith(word, ending) ==
    /\ Len(ending) <= Len(word)
    /\ \A k \in 1..Len(ending) : word[Len(word) - Len(ending) + k] = ending[k]

\* str.count(sub): the number of non-overlapping occurrences, found from
\* the left (after an occurrence at i the search resumes at i + len(sub));
\* the empty pattern occurs len + 1 times
Occurrences(text, sub) ==
    {i \in 1..(Len(text) - Len(sub) + 1) :
        \A k \in 1..Len(sub) : text[i + k - 1] = sub[k]}

RECURSIVE CountFrom(_, _, _)
CountFrom(occurrences, n, start) ==
    LET rest == {i \in occurrences : i >= start}
    IN  IF rest = {} THEN 0
        ELSE 1 + CountFrom(occurrences, n,
                           (CHOOSE i \in rest : \A j \in rest : i <= j) + n)

count(text, sub) ==
    IF sub = <<>> THEN Len(text) + 1
    ELSE CountFrom(Occurrences(text, sub), Len(sub), 1)

\* sum of a sequence of integers
RECURSIVE SumTo(_, _)
SumTo(s, n) == IF n = 0 THEN 0 ELSE s[n] + SumTo(s, n - 1)

SumSeq(s) == SumTo(s, Len(s))

Range(s) == {s[i] : i \in 1..Len(s)}

(***************************************************************************)
(* Dictionaries (insertion-ordered) as sequences of [k, v] entries.        *)
(***************************************************************************)
Keys(dict) == [i \in 1..Len(dict) |-> dict[i].k]

Has(dict, key) == \E i \in 1..Len(dict) : dict[i].k = key

\* dict[key], for a key the dict holds
Get(dict, key) == dict[CHOOSE i \in 1..Len(dict) : dict[i].k = key].v

\* dict.get(key, default)
GetOr(dict, key, default) == IF Has(dict, key) THEN Get(dict, key) ELSE default

\* dict[key] = value: an existing key keeps its place, a new key goes last
Put(dict, key, value) ==
    IF Has(dict, key)
    THEN [i \in 1..Len(dict) |->
            IF dict[i].k = key THEN [k |-> key, v |-> value] ELSE dict[i]]
    ELSE Append(dict, [k |-> key, v |-> value])

\* del dict[key]
Del(dict, key) == SelectSeq(dict, LAMBDA e : e.k # key)

\* {x: ... for x in list}: the keys of a dict comprehension over a list, each
\* once, in the order of first occurrence
RECURSIVE Dedup(_)
Dedup(list) ==
    IF list = <<>> THEN <<>>
    ELSE LET init == Dedup(SubSeq(list, 1, Len(list) - 1))
             x == list[Len(list)]
         IN  IF x \in Range(init) THEN init ELSE Append(init, x)

\* list.remove(x): the first occurrence goes
RECURSIVE ListRemove(_, _)
ListRemove(list, x) ==
    IF list = <<>> THEN <<>>
    ELSE IF Head(list) = x THEN Tail(list)
         ELSE <<Head(list)>> \o ListRemove(Tail(list), x)

(***************************************************************************)
(* class LanguageData.  A `data` argument is a record that may lack any of *)
(* its fields, read with data.get(field, default).                         *)
(***************************************************************************)
\* a faulty variant of DefaultWeights: a negative default weight
NegativeFrequentWeight ==
    [unique_letters |-> 20, frequent_letters |-> -10, word_endings |-> 15,
     marker_words |-> 30, digrams |-> 10, trigrams |-> 12]

DefaultWeights ==
    [unique_letters |-> 20, frequent_letters |-> 10, word_endings |-> 15,
     marker_words |-> 30, digrams |-> 10, trigrams |-> 12]

\* a faulty variant of DataGet: a missing collection becomes a collection of
\* one letter
DataGetOneLetter(data, field, default) ==
    IF field \in DOMAIN data THEN data[field]
    ELSE IF default = <<>> THEN << <<"n">> >> ELSE default

\* data.get(field, default)
DataGet(data, field, default) ==
    IF field \in DOMAIN data THEN data[field] ELSE default

LanguageData(name, data) ==
    [name |-> name,
     unique_letters |-> Range(DataGet(data, "unique_letters", <<>>)),
     frequent_letters |-> Range(DataGet(data, "frequent_letters", <<>>)),
     word_endings |-> DataGet(data, "word_endings", <<>>),
     marker_words |-> Range(DataGet(data, "marker_words", <<>>)),
     digrams |-> DataGet(data, "digrams", <<>>),
     trigrams |-> DataGet(data, "trigrams", <<>>),
     weights |-> DataGet(data, "weights", DefaultWeights)]

\* a faulty variant of Weight: the default weight, whatever the profile gives
WeightDefaultOnly(lang_data, feature) == DefaultWeights[feature]

\* lang_data.weights.get(feature, default)
Weight(lang_data, feature) ==
    IF feature \in DOMAIN lang_data.weights
    THEN lang_data.weights[feature]
    ELSE DefaultWeights[feature]

(***************************************************************************)
(* LangDetector class attributes.  Of the five built-in profiles the model *)
(* keeps the two default ones; the `alphabet` field, which no method       *)
(* reads, is left out.                                                     *)
(***************************************************************************)
DEFAULT_LANGUAGES == <<"russian", "ukrainian">>

BUILTIN_russian ==
    [
      unique_letters |-> <<
          <<"y">>, <<"hard">>, <<"eh">> >>,
      frequent_letters |-> <<
          <<"y">>, <<"hard">>, <<"eh">>, <<"yo">> >>,
      word_endings |-> <<
          <<"o", "g", "o">>, <<"e", "g", "o">>, <<"o", "m", "u">>,
          <<"e", "m", "u">>, <<"o", "j">>, <<"y", "j">>, <<"ii", "j">>,
          <<"t", "soft", "s", "ya">>, <<"t", "s", "ya">>,
          <<"e", "sh", "soft">>, <<"e", "t">>, <<"e", "m">>,
          <<"e", "t", "e">>, <<"u", "t">>, <<"yu", "t">>,
          <<"ya", "t">>, <<"a", "t", "soft">>, <<"ii", "t", "soft">>,
          <<"o", "t", "soft">>, <<"u", "t", "soft">>,
          <<"e", "t", "soft">>, <<"y", "h">>, <<"ii", "h">> >>,
      marker_words |-> <<
          <<"eh", "t", "o">>, <<"ii", "l", "ii">>, <<"k", "a", "k">>,
          <<"k", "o", "t", "o", "r", "y", "j">>, <<"g", "d", "e">>,
          <<"k", "o", "g", "d", "a">>,
          <<"s", "l", "o", "v", "n", "o">>,
          <<"p", "o", "t", "o", "m", "u">>, <<"k", "t", "o">>,
          <<"t", "a", "k", "zh", "e">>, <<"o", "t">>, <<"ii", "z">>,
          <<"d", "o">>, <<"v">>, <<"p", "r", "ii">>,
          <<"d", "l", "ya">>, <<"ii">>, <<"n", "o">>,
          <<"o", "d", "n", "a", "k", "o">>, <<"h", "o", "t", "ya">>,
          <<"ch", "t", "o", "b", "y">>, <<"e", "s", "l", "ii">>,
          <<"ii", "z", "-", "z", "a">>,
          <<"p", "o", "eh", "t", "o", "m", "u">>, <<"e", "sch", "yo">>,
          <<"d", "a">>, <<"n", "e", "t">>, <<"b", "y", "l">>,
          <<"b", "y", "l", "a">>, <<"b", "y", "l", "o">>,
          <<"b", "y", "l", "ii">> >>,
      digrams |-> <<
          <<"t", "soft">>, <<"t", "s">>, <<"s", "k">>, <<"y", "j">>,
          <<"ii", "j">>, <<"t", "soft", "s">>,
          <<"t", "soft", "s", "ya">>, <<"t", "s">>, <<"n", "n">>,
          <<"zh", "ii">>, <<"sh", "ii">>, <<"ch", "n">>, <<"ch", "k">>,
          <<"n", "ii">>, <<"n", "e">>, <<"n", "a">>, <<"p", "o">>,
          <<"v", "y">>, <<"z", "a">>, <<"ch", "t", "o">>,
          <<"l", "ii">>, <<"o", "j">>, <<"o", "m">> >>,
      trigrams |-> <<
          <<"t", "s", "ya">>, <<"t", "soft", "s", "ya">>,
          <<"a", "n", "ii">>, <<"e", "n", "ii">>, <<"o", "s", "t">>,
          <<"s", "t", "v">>, <<"n", "ii", "e">> >>
    ]

BUILTIN_ukrainian ==
    [
      unique_letters |-> <<
          <<"ye">>, <<"i">>, <<"yi">>, <<"gg">> >>,
      frequent_letters |-> <<
          <<"i">>, <<"ye">>, <<"yi">>, <<"gg">>, <<"soft">> >>,
      word_endings |-> <<
          <<"o", "yu">>, <<"o", "yu">>, <<"o", "g", "o">>,
          <<"o", "yi">>, <<"ii", "j">>, <<"i", "j">>,
          <<"ii", "s", "ya">>, <<"ii", "s", "soft">>,
          <<"t", "soft", "s", "ya">>, <<"t", "soft", "s", "ya">>,
          <<"e", "t", "soft", "s", "ya">>,
          <<"ii", "t", "soft", "s", "ya">>,
          <<"yu", "t", "soft", "s", "ya">>,
          <<"u", "yu", "t", "soft", "s", "ya">>, <<"i", "t", "ii">>,
          <<"a", "t", "ii">>, <<"ii", "t", "ii">>, <<"u", "t", "ii">>,
          <<"ya", "t", "ii">>, <<"e", "m", "o">>, <<"ye", "t", "e">>,
          <<"ye", "m", "o">> >>,
      marker_words |-> <<
          <<"c", "e">>, <<"a", "b", "o">>, <<"ch", "ii">>,
          <<"sch", "o">>, <<"ya", "k">>, <<"ya", "k", "ii", "j">>,
          <<"k", "o", "t", "r", "ii", "j">>, <<"d", "e">>,
          <<"k", "o", "l", "ii">>, <<"n", "a", "ch", "e">>,
          <<"b", "o">>, <<"t", "o", "m", "u">>, <<"h", "t", "o">>,
          <<"t", "a", "k", "o", "zh">>, <<"v", "i", "d">>, <<"z">>,
          <<"i", "z">>, <<"z", "i">>, <<"d", "o">>, <<"u">>,
          <<"p", "r", "ii">>, <<"d", "l", "ya">>, <<"t", "a">>,
          <<"i">>, <<"j">>, <<"a", "l", "e">>,
          <<"p", "r", "o", "t", "e">>, <<"o", "d", "n", "a", "k">>,
          <<"h", "o", "ch", "a">>, <<"sch", "o", "b">>,
          <<"ya", "k", "sch", "o">>, <<"k", "o", "l", "ii">>,
          <<"ch", "e", "r", "e", "z">>, <<"t", "o", "m", "u">>,
          <<"sch", "e">>, <<"t", "a", "k">>, <<"n", "i">>,
          <<"n", "e">>, <<"ye">>, <<"b", "u", "v">>,
          <<"b", "u", "l", "a">>, <<"b", "u", "l", "o">>,
          <<"b", "u", "l", "ii">> >>,
      digrams |-> <<
          <<"t", "soft">>, <<"n", "n">>, <<"s", "soft", "k">>,
          <<"ii", "j">>, <<"i", "j">>, <<"t", "soft", "s">>,
          <<"soft", "s">>, <<"soft", "k">>, <<"n", "n">>, <<"d", "z">>,
          <<"d", "zh">>, <<"gg", "u">>, <<"c", "i">>, <<"n", "e">>,
          <<"n", "a">>, <<"p", "o">>, <<"v", "ii">>, <<"z", "a">>,
          <<"sch", "o">>, <<"ch", "ii">>, <<"o", "yi">>, <<"o", "yu">> >>,
      trigrams |-> <<
          <<"n", "n", "ya">>, <<"s", "soft", "k">>,
          <<"i", "s", "t", "soft">>, <<"u", "v", "a">>,
          <<"i", "s", "t">>, <<"yu", "t", "soft">> >>
    ]

BUILTIN_LANGUAGE_DATA ==
    ("russian" :> BUILTIN_russian) @@ ("ukrainian" :> BUILTIN_ukrainian)

\* min_confidence: float = 0.6, in hundredths
DefaultMinConfidence == 60

(***************************************************************************)
(* Inputs of the operations.                                               *)
(***************************************************************************)
Detectors == {"d1", "d2"}

\* the list objects: the class attribute, and one list the caller built
ListObjects == {"DEFAULT_LANGUAGES", "caller_list"}

\* what the caller's list holds when the program starts: a code twice, and
\* a code that has no built-in profile
caller_list == <<"russian", "klingon", "russian">>

\* the `languages` argument of the constructor: None, or the caller's list
None == "None"

\* the constructor calls made: d1 = LangDetector(), and then either
\* d2 = LangDetector() or
\* d2 = LangDetector(languages=caller_list, min_confidence=1.0)
ConstructorCalls(self) ==
    IF self = "d1" THEN {<<None, DefaultMinConfidence>>}
    ELSE {<<None, DefaultMinConfidence>>, <<"caller_list", 100>>}

RemoveCodes == {"russian", "german", "klingon"}

\* profile data a caller passes to add_language: a complete profile without
\* weights, and one that lacks unique_letters, word_endings and trigrams and
\* gives two of the six weights
german_data ==
    [unique_letters |-> << <<"n">> >>,
     frequent_letters |-> << <<"n">>, <<"i">> >>,
     word_endings |-> << <<"n">>, <<"i", "n">> >>,
     marker_words |-> << <<"i", "n">> >>,
     digrams |-> << <<"i", "n">>, <<"n", "n">> >>,
     trigrams |-> << <<"i", "n", "n">> >>]

partial_data ==
    [frequent_letters |-> << <<"n">> >>,
     marker_words |-> << <<"y">>, <<"i">> >>,
     digrams |-> << <<"n", "n">> >>,
     weights |-> [marker_words |-> 10, digrams |-> 0]]

\* the add_language calls made: a new code with a complete profile, and a
\* code that has a built-in profile with the partial one
AddCalls == {<<"german", german_data>>, <<"russian", partial_data>>}

(***************************************************************************)
(* State.                                                                  *)
(***************************************************************************)
VARIABLES
    heap,            \* list object -> its elements
    detectors,       \* the LangDetector instances constructed so far
    languages,       \* self.languages: a reference to a list object
    language_data,   \* self.language_data: dict lang -> LanguageData
    min_confidence,  \* self.min_confidence
    removed,         \* history, kept under SpecHistory only: per detector,
                     \* the codes passed to remove_language and not passed
                     \* to add_language since
    mutations,       \* add_language / remove_language calls so far
    last,            \* the call the caller is in and what it returned,
                     \* Idle between calls
    external,        \* the ExternalDetector instance
    external_last,   \* the ExternalDetector call the caller is in and what
                     \* it returned, Idle between calls
    calls            \* per thread, the detect / analyze call it is in with
                     \* the locals of that call

vars == <<heap, detectors, languages, language_data, min_confidence,
          removed, mutations, last, external, external_last, calls>>

Idle == [op |-> "idle"]

\* the elements of the list self.languages refers to
Languages(self) == heap[languages[self]]

(***************************************************************************)
(* The six feature extractors.  An extractor that indexes its `scores`     *)
(* dict with a key the dict lacks raises KeyError.                         *)
(***************************************************************************)
Returned(value) == [raised |-> FALSE, value |-> value]
KeyError == [raised |-> TRUE, exception |-> "KeyError"]

\* {lang: 0 for lang in self.languages}
ZeroScores(self) ==
    LET ks == Dedup(Languages(self))
    IN  [i \in 1..Len(ks) |-> [k |-> ks[i], v |-> 0]]

\* sum(1 for char in text if char in letters)
CountLetters(text, letters) ==
    Cardinality({i \in 1..Len(text) : <<text[i]>> \in letters})

_count_unique_letters(self, text) ==
    [i \in 1..Len(language_data[self]) |->
        [k |-> language_data[self][i].k,
         v |-> CountLetters(text, language_data[self][i].v.unique_letters)]]

_count_frequent_letters(self, text) ==
    [i \in 1..Len(language_data[self]) |->
        [k |-> language_data[self][i].k,
         v |-> CountLetters(text, language_data[self][i].v.frequent_letters)]]

\* the scores an extractor returns when it adds points[i] to
\* scores[lang_code] for the i-th profile, where touched[i] says whether it
\* executes `scores[lang_code] += ...` for that profile at all
Accumulate(self, points, touched) ==
    LET ld == language_data[self]
        zero == ZeroScores(self)
        added == [i \in 1..Len(ld) |-> [k |-> ld[i].k, v |-> points[i]]]
    IN  IF \E i \in 1..Len(ld) : ~Has(zero, ld[i].k) /\ touched[i]
        THEN KeyError
        ELSE Returned([i \in 1..Len(zero) |->
                [k |-> zero[i].k, v |-> GetOr(added, zero[i].k, 0)]])

\* a faulty variant of _check_word_endings: a loop without its `break`, one
\* point for every ending a word ends with
_check_word_endings_no_break(self, words) ==
    LET ld == language_data[self]
        points == [p \in 1..Len(ld) |->
            SumSeq([i \in 1..Len(words) |->
                IF Len(words[i]) >= 3
                THEN Cardinality({j \in 1..Len(ld[p].v.word_endings) :
                        endswith(words[i], ld[p].v.word_endings[j])})
                ELSE 0])]
        touched == [p \in 1..Len(ld) |-> points[p] > 0]
    IN  Accumulate(self, points, touched)

_check_word_endings(self, words) ==
    LET ld == language_data[self]
        points == [p \in 1..Len(ld) |->
            Cardinality({i \in 1..Len(words) :
                /\ Len(words[i]) >= 3
                /\ \E j \in 1..Len(ld[p].v.word_endings) :
                      endswith(words[i], ld[p].v.word_endings[j])})]
        touched == [p \in 1..Len(ld) |-> points[p] > 0]
    IN  Accumulate(self, points, touched)

_check_marker_words(self, words) ==
    LET ld == language_data[self]
        words_lower == [i \in 1..Len(words) |->
                          [j \in 1..Len(words[i]) |-> lower(words[i][j])]]
        points == [p \in 1..Len(ld) |->
            Cardinality({i \in 1..Len(words_lower) :
                words_lower[i] \in ld[p].v.marker_words})]
        touched == [p \in 1..Len(ld) |-> points[p] > 0]
    IN  Accumulate(self, points, touched)

_check_ngrams(self, text, n) ==
    LET ld == language_data[self]
        text_lower == [i \in 1..Len(text) |-> lower(text[i])]
        Patterns(lang_data) ==
            IF n = 2 THEN lang_data.digrams
            ELSE IF n = 3 THEN lang_data.trigrams
            ELSE <<>>
        points == [p \in 1..Len(ld) |->
            SumSeq([j \in 1..Len(Patterns(ld[p].v)) |->
                        count(text_lower, Patterns(ld[p].v)[j])])]
        touched == [p \in 1..Len(ld) |-> Patterns(ld[p].v) # <<>>]
    IN  Accumulate(self, points, touched)

_calculate_weighted_scores(self, unique_letters, frequent_letters, word_endings, marker_words, digrams, trigrams) ==
    LET ld == language_data[self]
        zero == ZeroScores(self)
        extra == SelectSeq(Keys(ld), LAMBDA key : ~Has(zero, key))
        ks == Keys(zero) \o extra
        Score(lang_code) ==
            LET lang_data == Get(ld, lang_code)
            IN  GetOr(unique_letters, lang_code, 0) * Weight(lang_data, "unique_letters")
              + GetOr(frequent_letters, lang_code, 0) * Weight(lang_data, "frequent_letters")
              + GetOr(word_endings, lang_code, 0) * Weight(lang_data, "word_endings")
              + GetOr(marker_words, lang_code, 0) * Weight(lang_data, "marker_words")
              + GetOr(digrams, lang_code, 0) * Weight(lang_data, "digrams")
              + GetOr(trigrams, lang_code, 0) * Weight(lang_data, "trigrams")
    IN  [i \in 1..Len(ks) |->
            [k |-> ks[i], v |-> IF Has(ld, ks[i]) THEN Score(ks[i]) ELSE 0]]

\* a faulty variant of MaxEntry: the first entry of least value
LeastEntry(scores) ==
    scores[CHOOSE i \in 1..Len(scores) :
              /\ \A j \in 1..Len(scores) : scores[j].v >= scores[i].v
              /\ \A j \in 1..(i - 1) : scores[j].v > scores[i].v]

\* a faulty variant of MaxEntry: the last entry of greatest value
LastMaxEntry(scores) ==
    scores[CHOOSE i \in 1..Len(scores) :
              /\ \A j \in 1..Len(scores) : scores[j].v <= scores[i].v
              /\ \A j \in (i + 1)..Len(scores) : scores[j].v < scores[i].v]

\* max(scores.items(), key=lambda x: x[1]): the first entry of greatest value
MaxEntry(scores) ==
    scores[CHOOSE i \in 1..Len(scores) :
              /\ \A j \in 1..Len(scores) : scores[j].v <= scores[i].v
              /\ \A j \in 1..(i - 1) : scores[j].v < scores[i].v]

\* sum(scores.values())
SumValues(scores) == SumSeq([i \in 1..Len(scores) |-> scores[i].v])

(***************************************************************************)
(* LangDetector.detect.  A result is the returned dict, tagged with the    *)
(* return statement that produced it (`path`), or the exception raised.    *)
(***************************************************************************)
Result(language, confidence, path) ==
    [raised |-> FALSE, language |-> language, confidence |-> confidence,
     path |-> path]

\* a faulty variant of Unknown0: the empty-input answer with a confidence
UnknownWithConfidence == Result("unknown", <<95, 100>>, "EMPTY_INPUT")

Unknown0 == Result("unknown", <<0, 1>>, "EMPTY_INPUT")

\* a faulty variant of FastPathConfidence: full confidence
FastPathConfidenceOne == <<1, 1>>

\* the fixed confidence 0.95 of the unique-letter shortcut
FastPathConfidence == <<95, 100>>

\* a faulty variant of BelowThreshold: confidence <= self.min_confidence
AtOrBelowThreshold(num, den, threshold) == num * 100 <= threshold * den

\* confidence < self.min_confidence, for confidence = num / den
BelowThreshold(num, den, threshold) == num * 100 < threshold * den

\* a faulty variant of FullScoring: the best language whatever the threshold
FullScoringNoThreshold(self, cleaned_text, words, unique_scores) ==
    LET frequent_letters == _count_frequent_letters(self, cleaned_text)
        word_endings == _check_word_endings(self, words)
        marker_words == _check_marker_words(self, words)
        digrams == _check_ngrams(self, cleaned_text, 2)
        trigrams == _check_ngrams(self, cleaned_text, 3)
    IN  IF word_endings.raised \/ marker_words.raised
           \/ digrams.raised \/ trigrams.raised
        THEN KeyError
        ELSE LET scores == _calculate_weighted_scores(self, unique_scores, frequent_letters, word_endings.value, marker_words.value, digrams.value, trigrams.value)
                 total_score == SumValues(scores)
             IN  IF total_score = 0
                 THEN Result("unknown", <<0, 1>>, "FULL_SCORING")
                 ELSE Result(MaxEntry(scores).k,
                             <<MaxEntry(scores).v, total_score>>, "FULL_SCORING")

\* a faulty variant of FullScoring: the confidence is computed without looking
\* at the total first, and a total of 0 raises ZeroDivisionError
FullScoringNoZeroCheck(self, cleaned_text, words, unique_scores) ==
    LET frequent_letters == _count_frequent_letters(self, cleaned_text)
        word_endings == _check_word_endings(self, words)
        marker_words == _check_marker_words(self, words)
        digrams == _check_ngrams(self, cleaned_text, 2)
        trigrams == _check_ngrams(self, cleaned_text, 3)
    IN  IF word_endings.raised \/ marker_words.raised
           \/ digrams.raised \/ trigrams.raised
        THEN KeyError
        ELSE LET scores == _calculate_weighted_scores(self, unique_scores, frequent_letters, word_endings.value, marker_words.value, digrams.value, trigrams.value)
                 total_score == SumValues(scores)
             IN  IF total_score = 0
                 THEN [raised |-> TRUE, exception |-> "ZeroDivisionError"]
                 ELSE LET best_lang == MaxEntry(scores)
                      IN  IF BelowThreshold(best_lang.v, total_score,
                                            min_confidence[self])
                          THEN Result("unknown", <<best_lang.v, total_score>>,
                                      "FULL_SCORING")
                          ELSE Result(best_lang.k, <<best_lang.v, total_score>>,
                                      "FULL_SCORING")

\* lines 450-486: the full analysis
FullScoring(self, cleaned_text, words, unique_scores) ==
    LET frequent_letters == _count_frequent_letters(self, cleaned_text)
        word_endings == _check_word_endings(self, words)
        marker_words == _check_marker_words(self, words)
        digrams == _check_ngrams(self, cleaned_text, 2)
        trigrams == _check_ngrams(self, cleaned_text, 3)
    IN  IF word_endings.raised \/ marker_words.raised
           \/ digrams.raised \/ trigrams.raised
        THEN KeyError
        ELSE LET scores == _calculate_weighted_scores(self, unique_scores,
                               frequent_letters, word_endings.value,
                               marker_words.value, digrams.value, trigrams.value)
                 total_score == SumValues(scores)
             IN  IF total_score = 0
                 THEN Result("unknown", <<0, 1>>, "FULL_SCORING")
                 ELSE LET best_lang == MaxEntry(scores)
                      IN  IF BelowThreshold(best_lang.v, total_score,
                                            min_confidence[self])
                          THEN Result("unknown", <<best_lang.v, total_score>>,
                                      "FULL_SCORING")
                          ELSE Result(best_lang.k, <<best_lang.v, total_score>>,
                                      "FULL_SCORING")

detect(self, text) ==
    IF ~text.truthy \/ ~text.isStr THEN Unknown0
    ELSE LET cleaned_text == _clean_text(text.chars)
         IN  IF cleaned_text = <<>> THEN Unknown0
             ELSE LET words == split(cleaned_text)
                  IN  IF words = <<>> THEN Unknown0
                      ELSE LET unique_scores == _count_unique_letters(self, cleaned_text)
                               clear == {i \in 1..Len(unique_scores) :
                                           /\ unique_scores[i].v > 0
                                           /\ \A j \in 1..Len(unique_scores) :
                                                 unique_scores[j].k # unique_scores[i].k
                                                    => unique_scores[j].v = 0}
                           IN  IF clear # {}
                               THEN Result(unique_scores[CHOOSE i \in clear :
                                               \A j \in clear : i <= j].k,
                                           FastPathConfidence, "FAST_PATH_MATCH")
                               ELSE FullScoring(self, cleaned_text, words, unique_scores)

(***************************************************************************)
(* LangDetector.analyze.                                                   *)
(***************************************************************************)
\* a faulty variant of SortedDescending: the scores as they come
Unsorted(scores) == scores

\* sorted(scores.items(), key=lambda x: x[1], reverse=True): a stable sort,
\* entries of equal score keep their order
RECURSIVE SortedDescending(_)
SortedDescending(scores) ==
    IF scores = <<>> THEN <<>>
    ELSE LET init == SortedDescending(SubSeq(scores, 1, Len(scores) - 1))
             x == scores[Len(scores)]
             before == SelectSeq(init, LAMBDA e : e.v >= x.v)
             after == SelectSeq(init, LAMBDA e : e.v < x.v)
         IN  before \o <<x>> \o after

analyze(self, text) ==
    IF ~text.truthy \/ ~text.isStr
    THEN [raised |-> FALSE, error |-> "Empty or invalid text"]
    ELSE LET cleaned_text == _clean_text(text.chars)
         IN
         IF cleaned_text = <<>>
         THEN [raised |-> FALSE, error |-> "Text contains no analyzable content"]
         ELSE
         LET words == split(cleaned_text)
             unique_letters == _count_unique_letters(self, cleaned_text)
             frequent_letters == _count_frequent_letters(self, cleaned_text)
             word_endings == _check_word_endings(self, words)
             marker_words == _check_marker_words(self, words)
             digrams == _check_ngrams(self, cleaned_text, 2)
             trigrams == _check_ngrams(self, cleaned_text, 3)
         IN
         IF word_endings.raised \/ marker_words.raised
            \/ digrams.raised \/ trigrams.raised
         THEN KeyError
         ELSE
         LET scores == _calculate_weighted_scores(self, unique_letters,
                           frequent_letters, word_endings.value,
                           marker_words.value, digrams.value, trigrams.value)
             total_score == SumValues(scores)
             best_lang == MaxEntry(scores)
             language ==
                 IF total_score = 0 THEN "unknown"
                 ELSE IF BelowThreshold(best_lang.v, total_score, min_confidence[self])
                      THEN "unknown" ELSE best_lang.k
             confidence ==
                 IF total_score = 0 THEN <<0, 1>> ELSE <<best_lang.v, total_score>>
             sorted_scores == SortedDescending(scores)
             top3 == SubSeq(sorted_scores, 1,
                            IF Len(sorted_scores) < 3 THEN Len(sorted_scores) ELSE 3)
             positive == SelectSeq(top3, LAMBDA e : e.v > 0)
         IN  [raised |-> FALSE,
              language |-> language,
              confidence |-> confidence,
              stats |-> [text_length |-> Len(text.chars),
                         cleaned_length |-> Len(cleaned_text),
                         word_count |-> Len(words),
                         average_word_length |->
                             IF words # <<>>
                             THEN <<SumSeq([i \in 1..Len(words) |-> Len(words[i])]),
                                    Len(words)>>
                             ELSE <<0, 1>>],
              metrics |-> [unique_letters |-> unique_letters,
                           frequent_letters |-> frequent_letters,
                           word_endings |-> word_endings.value,
                           marker_words |-> marker_words.value,
                           digrams |-> digrams.value,
                           trigrams |-> trigrams.value],
              scores |-> scores,
              top_languages |->
                  [i \in 1..Len(positive) |->
                      [language |-> positive[i].k,
                       score |-> positive[i].v,
                       confidence |-> IF total_score > 0
                                      THEN <<positive[i].v, total_score>>
                                      ELSE <<0, 1>>]]]

(***************************************************************************)
(* Construction and mutation.                                              *)
(***************************************************************************)
\* a faulty variant of _load_language_data: a language without built-in data
\* gets a profile made from no data
RECURSIVE _load_language_data_placeholder(_)
_load_language_data_placeholder(langs) ==
    IF langs = <<>> THEN <<>>
    ELSE LET init == _load_language_data_placeholder(SubSeq(langs, 1, Len(langs) - 1))
             lang == langs[Len(langs)]
         IN  IF lang \in DOMAIN BUILTIN_LANGUAGE_DATA
             THEN Put(init, lang, LanguageData(lang, BUILTIN_LANGUAGE_DATA[lang]))
             ELSE Put(init, lang, LanguageData(lang, <<>>))

\* _load_language_data over the list `langs`, with no data file on disk
RECURSIVE _load_language_data(_)
_load_language_data(langs) ==
    IF langs = <<>> THEN <<>>
    ELSE LET init == _load_language_data(SubSeq(langs, 1, Len(langs) - 1))
             lang == langs[Len(langs)]
         IN  IF lang \in DOMAIN BUILTIN_LANGUAGE_DATA
             THEN Put(init, lang, LanguageData(lang, BUILTIN_LANGUAGE_DATA[lang]))
             ELSE init

\* `languages or self.DEFAULT_LANGUAGES`: the object the attribute refers to
LanguagesOrDefault(arg) ==
    IF arg = None \/ heap[arg] = <<>> THEN "DEFAULT_LANGUAGES" ELSE arg

\* LangDetector(languages=arg, min_confidence=threshold)
Construct(self, arg, threshold) ==
    /\ self \notin detectors
    /\ self = "d1" \/ "d1" \in detectors
    /\ detectors' = detectors \cup {self}
    /\ languages' = [languages EXCEPT ![self] = LanguagesOrDefault(arg)]
    /\ min_confidence' = [min_confidence EXCEPT ![self] = threshold]
    /\ language_data' = [language_data EXCEPT
                            ![self] = _load_language_data(heap[LanguagesOrDefault(arg)])]
    /\ last' = [op |-> "__init__", self |-> self]
    /\ UNCHANGED <<heap, mutations>>

\* self.languages after add_language(lang_code, ...)
AddedList(list, lang_code) ==
    IF lang_code \notin Range(list) THEN Append(list, lang_code) ELSE list

AddLanguage(self, lang_code, data) ==
    /\ self \in detectors
    /\ mutations < MaxMutations
    /\ heap' = [heap EXCEPT ![languages[self]] = AddedList(@, lang_code)]
    /\ language_data' = [language_data EXCEPT
                            ![self] = Put(@, lang_code, LanguageData(lang_code, data))]
    /\ mutations' = mutations + 1
    /\ last' = [op |-> "add_language", self |-> self, lang_code |-> lang_code,
                data |-> data]
    /\ UNCHANGED <<detectors, languages, min_confidence>>

\* whether remove_language(lang_code) takes its `if` branch
RemoveFinds(self, lang_code) == lang_code \in Range(Languages(self))

RemoveLanguage(self, lang_code) ==
    /\ self \in detectors
    /\ mutations < MaxMutations
    /\ IF RemoveFinds(self, lang_code)
       THEN /\ heap' = [heap EXCEPT ![languages[self]] = ListRemove(@, lang_code)]
            /\ language_data' = [language_data EXCEPT ![self] = Del(@, lang_code)]
       ELSE UNCHANGED <<heap, language_data>>
    /\ mutations' = mutations + 1
    /\ last' = [op |-> "remove_language", self |-> self, lang_code |-> lang_code,
                returned |-> RemoveFinds(self, lang_code),
                had_profile |-> Has(language_data[self], lang_code)]
    /\ UNCHANGED <<detectors, languages, min_confidence>>

\* a faulty variant of Detect: a detect that raises the detector's threshold
\* as it answers
DetectAdapting(self, text) ==
    /\ self \in detectors
    /\ last' = [op |-> "detect", self |-> self, text |-> text,
                result |-> detect(self, text)]
    /\ min_confidence' = [min_confidence EXCEPT ![self] = 100]
    /\ UNCHANGED <<heap, detectors, languages, language_data, mutations>>

Detect(self, text) ==
    /\ self \in detectors
    /\ last' = [op |-> "detect", self |-> self, text |-> text,
                result |-> detect(self, text)]
    /\ UNCHANGED <<heap, detectors, languages, language_data, min_confidence,
                   mutations>>

Analyze(self, text) ==
    /\ self \in detectors
    /\ last' = [op |-> "analyze", self |-> self, text |-> text,
                result |-> analyze(self, text)]
    /\ UNCHANGED <<heap, detectors, languages, language_data, min_confidence,
                   mutations>>

\* lines 620-631: LangDetector.get_language, result['language'] of detect
LangDetector_get_language(self, text) ==
    LET result == detect(self, text)
    IN  IF result.raised THEN result ELSE Returned(result.language)

\* a faulty variant of GetLanguage: a get_language that drops the detector's
\* threshold as it answers
GetLanguageLenient(self, text) ==
    /\ self \in detectors
    /\ last' = [op |-> "get_language", self |-> self, text |-> text,
                result |-> LangDetector_get_language(self, text)]
    /\ min_confidence' = [min_confidence EXCEPT ![self] = 0]
    /\ UNCHANGED <<heap, detectors, languages, language_data, mutations>>

GetLanguage(self, text) ==
    /\ self \in detectors
    /\ last' = [op |-> "get_language", self |-> self, text |-> text,
                result |-> LangDetector_get_language(self, text)]
    /\ UNCHANGED <<heap, detectors, languages, language_data, min_confidence,
                   mutations>>

\* the call returns to the caller, which goes on to its next call
Return ==
    /\ last # Idle
    /\ last' = Idle
    /\ UNCHANGED <<heap, detectors, languages, language_data, min_confidence,
                   removed, mutations>>

(***************************************************************************)
(* ExternalDetector (external.py): detection through the fastText and      *)
(* langdetect libraries.  What a library answers for a text is an input of *)
(* the call; confidences are percentages, and quotients are pairs          *)
(* <<numerator, denominator>> as in the core.                              *)
(***************************************************************************)
\* whether the environment lets _load_fasttext / _load_langdetect succeed
LibraryStates == BOOLEAN

ExternalMinConfidences == {50, 95}

\* fasttext_model.predict(text, k=1): it raises, or gives one label and score
FastTextOutcomes ==
    {[raises |-> TRUE]}
       \cup {[raises |-> FALSE, label |-> l, score |-> s] :
                l \in {"__label__ru", "__label__uk"}, s \in {40, 90}}

\* labels[i].replace('__label__', '')
LabelLanguage == ("__label__ru" :> "ru") @@ ("__label__uk" :> "uk")

\* langdetect.detect(text) and langdetect.detect_langs(text): they raise, or
\* give a language and a list of probabilities
LangdetectOutcomes ==
    {[raises |-> TRUE],
     [raises |-> FALSE, result |-> "ru",
      probabilities |-> <<[lang |-> "ru", prob |-> 90]>>],
     [raises |-> FALSE, result |-> "uk",
      probabilities |-> <<[lang |-> "ru", prob |-> 55], [lang |-> "uk", prob |-> 45]>>],
     [raises |-> FALSE, result |-> "uk",
      probabilities |-> <<[lang |-> "ru", prob |-> 90]>>]}

\* the libraries' answers for the text of one call
Environments ==
    [fasttext : FastTextOutcomes, langdetect : LangdetectOutcomes]

\* the texts passed to ExternalDetector: empty, blank, of 2, 3 and 11
\* characters once stripped
ExternalTexts ==
    {<<>>, <<" ", "\n", " ">>, <<" ", "i", "n", " ">>, <<"i", "n", "n">>,
     <<"n", "i", "n", "i", " ", "n", "i", "n", "i", "n", "i">>}

ExternalInputs == {StrInput(s) : s \in ExternalTexts} \cup NonStrInputs

\* 'best' stands for the method strings detect does not recognise
Methods == {"fasttext", "langdetect", "vote", "all", "best"}

\* the ExternalDetector object before its construction
NoObject == [constructed |-> FALSE]

\* {'language': ..., 'confidence': ..., 'method': ...}
ExternalResult(language, confidence, method) ==
    <<[k |-> "language", v |-> language], [k |-> "confidence", v |-> confidence],
      [k |-> "method", v |-> method]>>

\* a < b, for two quotients of positive denominator
Less(a, b) == a[1] * b[2] < b[1] * a[2]

\* lines 24-67, 69-151: the flags and handles left by the constructor
ExternalDetector(use_fasttext, use_langdetect, fasttext_loads, langdetect_loads, threshold) ==
    [constructed |-> TRUE,
     use_fasttext |-> use_fasttext /\ fasttext_loads,
     fasttext_model |-> use_fasttext /\ fasttext_loads,
     use_langdetect |-> use_langdetect /\ langdetect_loads,
     langdetect_module |-> use_langdetect /\ langdetect_loads,
     min_confidence |-> threshold]

\* lines 153-194, with k = 1
detect_fasttext(self, text, env) ==
    IF ~self.use_fasttext \/ ~self.fasttext_model THEN <<>>
    ELSE IF ~text.truthy \/ Len(strip(text.chars)) < 3 THEN <<>>
    ELSE IF env.fasttext.raises THEN <<>>
    ELSE IF env.fasttext.score >= self.min_confidence
         THEN <<[language |-> LabelLanguage[env.fasttext.label],
                 confidence |-> <<env.fasttext.score, 100>>]>>
         ELSE <<>>

\* lines 196-234
detect_langdetect(self, text, env) ==
    IF ~self.use_langdetect \/ ~self.langdetect_module THEN <<>>
    ELSE IF ~text.truthy \/ Len(strip(text.chars)) < 10 THEN <<>>
    ELSE IF env.langdetect.raises THEN <<>>
    ELSE LET result == env.langdetect.result
             probabilities == env.langdetect.probabilities
             found == {i \in 1..Len(probabilities) : probabilities[i].lang = result}
             confidence ==
                 IF found = {} THEN <<0, 100>>
                 ELSE <<probabilities[CHOOSE i \in found : \A j \in found : i <= j].prob,
                        100>>
         IN  <<[language |-> result, confidence |-> confidence]>>

\* lines 291-349
_vote_language(self, text, env) ==
    LET ft_results == IF self.use_fasttext THEN detect_fasttext(self, text, env) ELSE <<>>
        ld_results == IF self.use_langdetect THEN detect_langdetect(self, text, env) ELSE <<>>
        votes1 == IF ft_results # <<>>
                  THEN Put(<<>>, ft_results[1].language, ft_results[1].confidence[1])
                  ELSE <<>>
        results1 == IF ft_results # <<>>
                    THEN Put(<<>>, "fasttext", ft_results[1])
                    ELSE <<>>
        votes == IF ld_results # <<>>
                 THEN Put(votes1, ld_results[1].language,
                          GetOr(votes1, ld_results[1].language, 0)
                             + ld_results[1].confidence[1])
                 ELSE votes1
        method_results == IF ld_results # <<>>
                          THEN Put(results1, "langdetect", ld_results[1])
                          ELSE results1
    IN  IF votes = <<>> THEN ExternalResult("unknown", <<0, 1>>, "vote")
        ELSE LET best_lang == MaxEntry(votes)
                 language == best_lang.k
                 agreeing == SelectSeq(method_results, LAMBDA e : e.v.language = language)
                 confidence_sum == SumSeq([i \in 1..Len(agreeing) |-> agreeing[i].v.confidence[1]])
                 num_methods == Len(agreeing)
                 confidence == IF num_methods = 0
                               THEN <<best_lang.v, SumValues(votes)>>
                               ELSE <<confidence_sum, num_methods * 100>>
             IN  ExternalResult(language, confidence, "vote")
                    \o <<[k |-> "methods_used", v |-> Keys(method_results)]>>

\* the method of greatest confidence among the first n results, the first of
\* them when several share it, None when there is none (lines 373-380)
RECURSIVE BestMethod(_, _)
BestMethod(results, n) ==
    IF n = 0 THEN [method |-> None, confidence |-> <<-1, 1>>]
    ELSE LET best == BestMethod(results, n - 1)
         IN  IF Less(best.confidence, Get(results[n].v, "confidence"))
             THEN [method |-> results[n].k, confidence |-> Get(results[n].v, "confidence")]
             ELSE best

RECURSIVE ExternalDetector_detect(_, _, _, _)

\* lines 351-389
_detect_all(self, text, env) ==
    LET results1 == IF self.use_fasttext
                    THEN Put(<<>>, "fasttext", ExternalDetector_detect(self, text, "fasttext", env))
                    ELSE <<>>
        results2 == IF self.use_langdetect
                    THEN Put(results1, "langdetect", ExternalDetector_detect(self, text, "langdetect", env))
                    ELSE results1
        results == Put(results2, "vote", _vote_language(self, text, env))
        best_method == BestMethod(results, Len(results)).method
    IN  IF best_method = None
        THEN ExternalResult("unknown", <<0, 1>>, "all")
                \o <<[k |-> "best_method", v |-> None]>>
        ELSE Put(Put(results, "best", Get(results, best_method)),
                 "best_method", best_method)

\* lines 236-289: ExternalDetector.detect
ExternalDetector_detect(self, text, method, env) ==
    IF ~text.truthy \/ ~text.isStr \/ Len(strip(text.chars)) < 3
    THEN ExternalResult("unknown", <<0, 1>>, method)
    ELSE IF method = "fasttext"
    THEN IF ~self.use_fasttext THEN ExternalResult("unknown", <<0, 1>>, "fasttext")
         ELSE LET results == detect_fasttext(self, text, env)
              IN  IF results # <<>>
                  THEN ExternalResult(results[1].language, results[1].confidence, "fasttext")
                  ELSE ExternalResult("unknown", <<0, 1>>, "fasttext")
    ELSE IF method = "langdetect"
    THEN IF ~self.use_langdetect THEN ExternalResult("unknown", <<0, 1>>, "langdetect")
         ELSE LET results == detect_langdetect(self, text, env)
              IN  IF results # <<>>
                  THEN ExternalResult(results[1].language, results[1].confidence, "langdetect")
                  ELSE ExternalResult("unknown", <<0, 1>>, "langdetect")
    ELSE IF method = "vote" THEN _vote_language(self, text, env)
    ELSE IF method = "all" THEN _detect_all(self, text, env)
    ELSE _vote_language(self, text, env)

\* lines 515-527: ExternalDetector.get_language
get_language(self, text, method, env) ==
    GetOr(ExternalDetector_detect(self, text, method, env), "language", "unknown")

\* external = ExternalDetector(use_fasttext=..., use_langdetect=..., min_confidence=...)
ExternalConstruct(use_fasttext, use_langdetect, fasttext_loads, langdetect_loads, threshold) ==
    /\ ~external.constructed
    /\ external' = ExternalDetector(use_fasttext, use_langdetect, fasttext_loads, langdetect_loads, threshold)
    /\ external_last' = [op |-> "__init__"]

\* external.detect(text, method)
ExternalDetect(text, method, env) ==
    /\ external.constructed
    /\ external_last' = [op |-> "detect", text |-> text, method |-> method,
                         env |-> env,
                         result |-> ExternalDetector_detect(external, text, method, env)]
    /\ UNCHANGED external

\* external.get_language(text, method)
ExternalGetLanguage(text, method, env) ==
    /\ external.constructed
    /\ external_last' = [op |-> "get_language", text |-> text, method |-> method,
                         env |-> env,
                         result |-> get_language(external, text, method, env)]
    /\ UNCHANGED external

\* the call returns to the caller
ExternalReturn ==
    /\ external_last # Idle
    /\ external_last' = Idle
    /\ UNCHANGED external

(***************************************************************************)
(* LangLib.LangDetector (src/LangLib.py): the classifier with the Russian  *)
(* and Ukrainian data written into its constructor.  Its weighted scores   *)
(* are in tenths, as in the profile-driven detector.                       *)
(***************************************************************************)
\* line 12
russian_unique ==
    {<<"y">>, <<"hard">>, <<"eh">>}

\* line 15
ukrainian_unique ==
    {<<"ye">>, <<"i">>, <<"yi">>, <<"gg">>}

\* line 18
uk_frequent ==
    {<<"i">>, <<"ye">>, <<"yi">>, <<"gg">>, <<"soft">>}

\* line 21
ru_frequent ==
    {<<"y">>, <<"hard">>, <<"eh">>}

\* the list assigned at line 24
ukrainian_endings ==
    << <<"o", "yu">>, <<"o", "yu">>, <<"o", "g", "o">>,
       <<"o", "yi">>, <<"ii", "j">>, <<"i", "j">>,
       <<"ii", "s", "ya">>, <<"ii", "s", "soft">>,
       <<"t", "soft", "s", "ya">>, <<"t", "soft", "s", "ya">>,
       <<"e", "t", "soft", "s", "ya">>,
       <<"ii", "t", "soft", "s", "ya">>,
       <<"yu", "t", "soft", "s", "ya">>,
       <<"u", "yu", "t", "soft", "s", "ya">>, <<"i", "t", "ii">>,
       <<"a", "t", "ii">>, <<"ii", "t", "ii">>, <<"u", "t", "ii">>,
       <<"ya", "t", "ii">>, <<"e", "m", "o">>, <<"ye", "t", "e">>,
       <<"ye", "m", "o">> >>

\* the list assigned at line 31
russian_endings ==
    << <<"o", "g", "o">>, <<"e", "g", "o">>, <<"o", "m", "u">>,
       <<"e", "m", "u">>, <<"o", "j">>, <<"y", "j">>, <<"ii", "j">>,
       <<"t", "soft", "s", "ya">>, <<"t", "s", "ya">>,
       <<"e", "sh", "soft">>, <<"e", "t">>, <<"e", "m">>,
       <<"e", "t", "e">>, <<"u", "t">>, <<"yu", "t">>,
       <<"ya", "t">>, <<"a", "t", "soft">>, <<"ii", "t", "soft">>,
       <<"o", "t", "soft">>, <<"u", "t", "soft">>,
       <<"e", "t", "soft">>, <<"y", "h">>, <<"ii", "h">> >>

\* the list assigned at line 38
ukrainian_words ==
    << <<"c", "e">>, <<"a", "b", "o">>, <<"ch", "ii">>,
       <<"sch", "o">>, <<"ya", "k">>, <<"ya", "k", "ii", "j">>,
       <<"k", "o", "t", "r", "ii", "j">>, <<"d", "e">>,
       <<"k", "o", "l", "ii">>, <<"n", "a", "ch", "e">>,
       <<"b", "o">>, <<"t", "o", "m", "u">>, <<"h", "t", "o">>,
       <<"t", "a", "k", "o", "zh">>, <<"v", "i", "d">>, <<"z">>,
       <<"i", "z">>, <<"z", "i">>, <<"d", "o">>, <<"u">>,
       <<"p", "r", "ii">>, <<"d", "l", "ya">>, <<"t", "a">>,
       <<"i">>, <<"j">>, <<"a", "l", "e">>,
       <<"p", "r", "o", "t", "e">>, <<"o", "d", "n", "a", "k">>,
       <<"h", "o", "ch", "a">>, <<"sch", "o", "b">>,
       <<"ya", "k", "sch", "o">>, <<"k", "o", "l", "ii">>,
       <<"ch", "e", "r", "e", "z">>, <<"t", "o", "m", "u">>,
       <<"sch", "e">>, <<"t", "a", "k">>, <<"n", "i">>,
       <<"n", "e">>, <<"ye">>, <<"b", "u", "v">>,
       <<"b", "u", "l", "a">>, <<"b", "u", "l", "o">>,
       <<"b", "u", "l", "ii">> >>

\* the list assigned at line 47
russian_words ==
    << <<"eh", "t", "o">>, <<"ii", "l", "ii">>, <<"k", "a", "k">>,
       <<"k", "o", "t", "o", "r", "y", "j">>, <<"g", "d", "e">>,
       <<"k", "o", "g", "d", "a">>,
       <<"s", "l", "o", "v", "n", "o">>,
       <<"p", "o", "t", "o", "m", "u">>, <<"k", "t", "o">>,
       <<"t", "a", "k", "zh", "e">>, <<"o", "t">>, <<"ii", "z">>,
       <<"d", "o">>, <<"v">>, <<"p", "r", "ii">>,
       <<"d", "l", "ya">>, <<"ii">>, <<"n", "o">>,
       <<"o", "d", "n", "a", "k", "o">>, <<"h", "o", "t", "ya">>,
       <<"ch", "t", "o", "b", "y">>, <<"e", "s", "l", "ii">>,
       <<"ii", "z", "-", "z", "a">>,
       <<"p", "o", "eh", "t", "o", "m", "u">>, <<"e", "sch", "yo">>,
       <<"d", "a">>, <<"n", "e", "t">>, <<"b", "y", "l">>,
       <<"b", "y", "l", "a">>, <<"b", "y", "l", "o">>,
       <<"b", "y", "l", "ii">> >>

\* the list assigned at line 56
ukrainian_digrams ==
    << <<"t", "soft">>, <<"n", "n">>, <<"s", "soft", "k">>,
       <<"ii", "j">>, <<"i", "j">>, <<"t", "soft", "s">>,
       <<"soft", "s">>, <<"soft", "k">>, <<"n", "n">>, <<"d", "z">>,
       <<"d", "zh">>, <<"gg", "u">>, <<"c", "i">>, <<"n", "e">>,
       <<"n", "a">>, <<"p", "o">>, <<"v", "ii">>, <<"z", "a">>,
       <<"sch", "o">>, <<"ch", "ii">>, <<"o", "yi">>, <<"o", "yu">> >>

\* the list assigned at line 62
russian_digrams ==
    << <<"t", "soft">>, <<"t", "s">>, <<"s", "k">>, <<"y", "j">>,
       <<"ii", "j">>, <<"t", "soft", "s">>,
       <<"t", "soft", "s", "ya">>, <<"t", "s">>, <<"n", "n">>,
       <<"zh", "ii">>, <<"sh", "ii">>, <<"ch", "n">>, <<"ch", "k">>,
       <<"n", "ii">>, <<"n", "e">>, <<"n", "a">>, <<"p", "o">>,
       <<"v", "y">>, <<"z", "a">>, <<"ch", "t", "o">>,
       <<"l", "ii">>, <<"o", "j">>, <<"o", "m">> >>

\* the inputs of the calls on LangLib: those of the profile-driven detector
\* and a text of two letters unique to one language each and a digram
LangLibInputs == Inputs \cup {StrInput(<<"Y", "i", "n", "n">>)}

\* lines 67-80: (ru_count, uk_count)
LangLib_count_unique_letters(text) ==
    <<CountLetters(text, russian_unique), CountLetters(text, ukrainian_unique)>>

\* lines 82-95: (ru_count, uk_count)
LangLib_count_frequent_letters(text) ==
    <<CountLetters(text, ru_frequent), CountLetters(text, uk_frequent)>>

\* whether the loop over `endings` reaches an ending the word ends with
\* before it runs out (lines 113-116, 119-122)
RECURSIVE EndingFound(_, _)
EndingFound(word, endings) ==
    IF endings = <<>> THEN FALSE
    ELSE IF endswith(word, Head(endings)) THEN TRUE
    ELSE EndingFound(word, Tail(endings))

\* lines 97-126: (ru_score, uk_score)
LangLib_check_word_endings(words) ==
    LET Score(endings) ==
            Cardinality({i \in 1..Len(words) :
                Len(words[i]) >= 3 /\ EndingFound(words[i], endings)})
    IN  <<Score(russian_endings), Score(ukrainian_endings)>>

\* lines 128-151: (ru_score, uk_score)
LangLib_check_marker_words(words) ==
    LET words_lower == [i \in 1..Len(words) |->
                          [j \in 1..Len(words[i]) |-> lower(words[i][j])]]
        Score(marker_words) ==
            Cardinality({i \in 1..Len(words_lower) :
                words_lower[i] \in Range(marker_words)})
    IN  <<Score(russian_words), Score(ukrainian_words)>>

\* lines 153-174: (ru_score, uk_score)
LangLib_check_digrams(text) ==
    LET text_lower == [i \in 1..Len(text) |-> lower(text[i])]
        Score(digrams) ==
            SumSeq([j \in 1..Len(digrams) |-> count(text_lower, digrams[j])])
    IN  <<Score(russian_digrams), Score(ukrainian_digrams)>>

\* lines 176-197
LangLib_clean_text(text) ==
    LET lowered == [i \in 1..Len(text) |-> lower(text[i])]
    IN  strip(SubSpaces(SubPunctuation(lowered)))

\* the five metrics of lines 225-246 and 297-301, each a pair (ru, uk)
LangLibMetrics(cleaned_text, words) ==
    [unique_letters |-> LangLib_count_unique_letters(cleaned_text),
     frequent_letters |-> LangLib_count_frequent_letters(cleaned_text),
     word_endings |-> LangLib_check_word_endings(words),
     marker_words |-> LangLib_check_marker_words(words),
     digrams |-> LangLib_check_digrams(cleaned_text)]

\* the weighted scores of lines 249-262 and 304-307, in tenths
LangLibScores(m) ==
    LET Score(k) == m.unique_letters[k] * 20 + m.frequent_letters[k] * 10
                       + m.word_endings[k] * 15 + m.marker_words[k] * 30
                       + m.digrams[k] * 10
    IN  [russian |-> Score(1), ukrainian |-> Score(2)]

\* lines 199-271: LangLib.LangDetector.detect_language
detect_language(text) ==
    IF ~text.truthy \/ ~text.isStr THEN "unknown"
    ELSE LET cleaned_text == LangLib_clean_text(text.chars)
         IN  IF cleaned_text = <<>> THEN "unknown"
             ELSE LET words == split(cleaned_text)
                      unique == LangLib_count_unique_letters(cleaned_text)
                      scores == LangLibScores(LangLibMetrics(cleaned_text, words))
                  IN  IF words = <<>> THEN "unknown"
                      ELSE IF unique[1] > 0 /\ unique[2] = 0 THEN "russian"
                      ELSE IF unique[2] > 0 /\ unique[1] = 0 THEN "ukrainian"
                      ELSE IF scores.russian > scores.ukrainian THEN "russian"
                      ELSE IF scores.ukrainian > scores.russian THEN "ukrainian"
                      ELSE "unknown"

\* {'language': 'unknown', 'confidence': 0.0, 'details': {}}
LangLibUnknown == [language |-> "unknown", confidence |-> <<0, 1>>, details |-> <<>>]

\* lines 273-343: LangLib.LangDetector.get_confidence; the confidence is the
\* pair <<numerator, denominator>>
get_confidence(text) ==
    IF ~text.truthy \/ ~text.isStr THEN LangLibUnknown
    ELSE LET cleaned_text == LangLib_clean_text(text.chars)
         IN  IF cleaned_text = <<>> THEN LangLibUnknown
             ELSE LET words == split(cleaned_text)
                      m == LangLibMetrics(cleaned_text, words)
                      scores == LangLibScores(m)
                      total_score == scores.russian + scores.ukrainian
                      details ==
                          [metrics |->
                              [k \in DOMAIN m |->
                                  [russian |-> m[k][1], ukrainian |-> m[k][2]]],
                           scores |-> scores]
                  IN  IF words = <<>> THEN LangLibUnknown
                      ELSE IF total_score = 0 THEN LangLibUnknown
                      ELSE IF scores.russian > scores.ukrainian
                      THEN [language |-> "russian",
                            confidence |-> <<scores.russian, total_score>>,
                            details |-> details]
                      ELSE [language |-> "ukrainian",
                            confidence |-> <<scores.ukrainian, total_score>>,
                            details |-> details]

\* LangLib.LangDetector().detect_language(text)
LangLibDetectLanguage(text) ==
    /\ last' = [op |-> "LangLib.detect_language", text |-> text,
                result |-> detect_language(text)]
    /\ UNCHANGED <<heap, detectors, languages, language_data, min_confidence,
                   mutations>>

\* LangLib.LangDetector().get_confidence(text)
LangLibGetConfidence(text) ==
    /\ last' = [op |-> "LangLib.get_confidence", text |-> text,
                result |-> get_confidence(text)]
    /\ UNCHANGED <<heap, detectors, languages, language_data, min_confidence,
                   mutations>>

(***************************************************************************)
(* detect and analyze called from several threads on the same detector     *)
(* (LangDefLib.py lines 415-486, 505-592, 275-413).  A call in flight      *)
(* holds its locals: the cleaned text, its words and the count map of each *)
(* extractor it has evaluated.  The code evaluates the extractors in the   *)
(* order of lines 442 and 451-455 (detect) or 529-534 (analyze).  Calls in *)
(* flight together on a detector take them in that order, interleaved in   *)
(* every way; a call with no other call beside it takes them in any order, *)
(* except that detect counts the unique letters and tries its shortcut     *)
(* first.                                                                  *)
(***************************************************************************)
Threads == {"t1", "t2"}

\* the texts a thread passes: each thread has a text of its own to classify,
\* and one that both pass, without a letter or digit
ConcurrentTexts(t) ==
    {IF t = "t1" THEN StrInput(<<"n", "n", ",", " ", "i">>) ELSE StrInput(<<"Y", "i">>),
     StrInput(<<",">>)}

Extractors ==
    {"unique_letters", "frequent_letters", "word_endings", "marker_words",
     "digrams", "trigrams"}

\* the order of the calls at lines 442, 451-455 and 529-534
ExtractorOrder ==
    <<"unique_letters", "frequent_letters", "word_endings", "marker_words",
      "digrams", "trigrams">>

NoCall == [pc |-> "none"]

\* the call has evaluated its extractors in the order of the code so far
InCodeOrder(call) ==
    \A i \in 1..Len(ExtractorOrder), j \in 1..Len(ExtractorOrder) :
        i < j /\ call.counts[ExtractorOrder[j]].evaluated
           => call.counts[ExtractorOrder[i]].evaluated

\* the extractor at which the code goes on
NextInCodeOrder(call, extractor) ==
    \E i \in 1..Len(ExtractorOrder) :
        /\ ExtractorOrder[i] = extractor
        /\ \A j \in 1..(i - 1) : call.counts[ExtractorOrder[j]].evaluated

NotEvaluated == [evaluated |-> FALSE]

\* what the extractor returns to the call that evaluates it
Evaluate(self, extractor, cleaned_text, words) ==
    CASE extractor = "unique_letters" ->
            Returned(_count_unique_letters(self, cleaned_text))
      [] extractor = "frequent_letters" ->
            Returned(_count_frequent_letters(self, cleaned_text))
      [] extractor = "word_endings" -> _check_word_endings(self, words)
      [] extractor = "marker_words" -> _check_marker_words(self, words)
      [] extractor = "digrams" -> _check_ngrams(self, cleaned_text, 2)
      [] extractor = "trigrams" -> _check_ngrams(self, cleaned_text, 3)

\* a faulty variant of Store: one count map per extractor kept on the
\* detector, which every call in flight on it reads back
StoreOnDetector(cs, t, extractor, value) ==
    [u \in Threads |->
        IF cs[u].pc = "extracting" /\ cs[u].self = cs[t].self
        THEN [cs[u] EXCEPT !.counts[extractor] =
                              [evaluated |-> TRUE, value |-> value]]
        ELSE cs[u]]

\* the extractor's return value is bound to a local of the call
Store(cs, t, extractor, value) ==
    [cs EXCEPT ![t].counts[extractor] = [evaluated |-> TRUE, value |-> value]]

\* the call is over: what it returns or raises
Returns(cs, t, result) ==
    [cs EXCEPT ![t] = [pc |-> "returned", op |-> cs[t].op, self |-> cs[t].self,
                       text |-> cs[t].text, result |-> result]]

\* lines 457-486: detect from the weighted scores on
DetectFromCounts(self, counts) ==
    LET scores == _calculate_weighted_scores(self, counts.unique_letters.value,
                      counts.frequent_letters.value, counts.word_endings.value,
                      counts.marker_words.value, counts.digrams.value,
                      counts.trigrams.value)
        total_score == SumValues(scores)
    IN  IF total_score = 0
        THEN Result("unknown", <<0, 1>>, "FULL_SCORING")
        ELSE LET best_lang == MaxEntry(scores)
             IN  IF BelowThreshold(best_lang.v, total_score, min_confidence[self])
                 THEN Result("unknown", <<best_lang.v, total_score>>, "FULL_SCORING")
                 ELSE Result(best_lang.k, <<best_lang.v, total_score>>, "FULL_SCORING")

\* lines 536-592: analyze from the weighted scores on
AnalyzeFromCounts(self, text, cleaned_text, words, counts) ==
    LET scores == _calculate_weighted_scores(self, counts.unique_letters.value,
                      counts.frequent_letters.value, counts.word_endings.value,
                      counts.marker_words.value, counts.digrams.value,
                      counts.trigrams.value)
        total_score == SumValues(scores)
        best_lang == MaxEntry(scores)
        language ==
            IF total_score = 0 THEN "unknown"
            ELSE IF BelowThreshold(best_lang.v, total_score, min_confidence[self])
                 THEN "unknown" ELSE best_lang.k
        confidence ==
            IF total_score = 0 THEN <<0, 1>> ELSE <<best_lang.v, total_score>>
        sorted_scores == SortedDescending(scores)
        top3 == SubSeq(sorted_scores, 1,
                       IF Len(sorted_scores) < 3 THEN Len(sorted_scores) ELSE 3)
        positive == SelectSeq(top3, LAMBDA e : e.v > 0)
    IN  [raised |-> FALSE,
         language |-> language,
         confidence |-> confidence,
         stats |-> [text_length |-> Len(text.chars),
                    cleaned_length |-> Len(cleaned_text),
                    word_count |-> Len(words),
                    average_word_length |->
                        IF words # <<>>
                        THEN <<SumSeq([i \in 1..Len(words) |-> Len(words[i])]),
                               Len(words)>>
                        ELSE <<0, 1>>],
         metrics |-> [e \in Extractors |-> counts[e].value],
         scores |-> scores,
         top_languages |->
             [i \in 1..Len(positive) |->
                 [language |-> positive[i].k,
                  score |-> positive[i].v,
                  confidence |-> IF total_score > 0
                                 THEN <<positive[i].v, total_score>>
                                 ELSE <<0, 1>>]]]

\* thread t calls self.detect(text) or self.analyze(text): the guards of
\* lines 425-440 and 515-526, then the locals of the call
BeginCall(t, op, self, text) ==
    /\ calls[t] = NoCall
    /\ self \in detectors
    /\ \A u \in Threads \ {t} :
          /\ calls[u] # NoCall => calls[u].self = self
          /\ calls[u].pc = "extracting" => InCodeOrder(calls[u])
    /\ LET call == [pc |-> "extracting", op |-> op, self |-> self, text |-> text]
           started == [calls EXCEPT ![t] = call]
           cleaned_text == _clean_text(text.chars)
       IN  calls' =
             IF ~text.truthy \/ ~text.isStr
             THEN Returns(started, t,
                     IF op = "detect" THEN Unknown0
                     ELSE [raised |-> FALSE, error |-> "Empty or invalid text"])
             ELSE IF cleaned_text = <<>>
             THEN Returns(started, t,
                     IF op = "detect" THEN Unknown0
                     ELSE [raised |-> FALSE,
                           error |-> "Text contains no analyzable content"])
             ELSE IF op = "detect" /\ split(cleaned_text) = <<>>
             THEN Returns(started, t, Unknown0)
             ELSE [calls EXCEPT ![t] =
                      [pc |-> "extracting", op |-> op, self |-> self,
                       text |-> text, cleaned_text |-> cleaned_text,
                       words |-> split(cleaned_text),
                       counts |-> [e \in Extractors |-> NotEvaluated]]]
    /\ UNCHANGED <<heap, detectors, languages, language_data, min_confidence,
                   mutations, last>>

\* thread t evaluates one extractor; a KeyError ends the call, and so does
\* the shortcut of lines 445-447 in detect
ExtractStep(t, extractor) ==
    /\ calls[t].pc = "extracting"
    /\ ~calls[t].counts[extractor].evaluated
    /\ calls[t].op = "detect" /\ extractor # "unique_letters"
          => calls[t].counts["unique_letters"].evaluated
    /\ \/ NextInCodeOrder(calls[t], extractor)
       \/ \A u \in Threads \ {t} : calls[u] = NoCall
    /\ LET call == calls[t]
           returned == Evaluate(call.self, extractor, call.cleaned_text, call.words)
           unique_scores == returned.value
           clear == {i \in 1..Len(unique_scores) :
                       /\ unique_scores[i].v > 0
                       /\ \A j \in 1..Len(unique_scores) :
                             unique_scores[j].k # unique_scores[i].k
                                => unique_scores[j].v = 0}
       IN  calls' =
             IF returned.raised THEN Returns(calls, t, returned)
             ELSE IF call.op = "detect" /\ extractor = "unique_letters" /\ clear # {}
             THEN Returns(calls, t,
                     Result(unique_scores[CHOOSE i \in clear :
                                \A j \in clear : i <= j].k,
                            FastPathConfidence, "FAST_PATH_MATCH"))
             ELSE Store(calls, t, extractor, returned.value)
    /\ UNCHANGED <<heap, detectors, languages, language_data, min_confidence,
                   mutations, last>>

\* thread t has its six count maps: the scores and the answer
CompleteCall(t) ==
    /\ calls[t].pc = "extracting"
    /\ \A e \in Extractors : calls[t].counts[e].evaluated
    /\ LET call == calls[t]
       IN  calls' = Returns(calls, t,
              IF call.op = "detect" THEN DetectFromCounts(call.self, call.counts)
              ELSE AnalyzeFromCounts(call.self, call.text, call.cleaned_text,
                                     call.words, call.counts))
    /\ UNCHANGED <<heap, detectors, languages, language_data, min_confidence,
                   mutations, last>>

\* thread t has its answer and goes on to its next call
ReturnCall(t) ==
    /\ calls[t].pc = "returned"
    /\ calls' = [calls EXCEPT ![t] = NoCall]
    /\ UNCHANGED <<heap, detectors, languages, language_data, min_confidence,
                   mutations, last>>

(***************************************************************************)
(* Specification.                                                          *)
(***************************************************************************)
Init ==
    /\ heap = [DEFAULT_LANGUAGES |-> DEFAULT_LANGUAGES, caller_list |-> caller_list]
    /\ detectors = {}
    /\ languages = [d \in Detectors |-> "DEFAULT_LANGUAGES"]
    /\ language_data = [d \in Detectors |-> <<>>]
    /\ min_confidence = [d \in Detectors |-> DefaultMinConfidence]
    /\ removed = [d \in Detectors |-> {}]
    /\ mutations = 0
    /\ last = Idle
    /\ external = NoObject
    /\ external_last = Idle
    /\ calls = [t \in Threads |-> NoCall]

\* the calls a caller makes, each started when it is between calls
ConstructCall ==
    /\ last = Idle
    /\ \E self \in Detectors : \E call \in ConstructorCalls(self) :
          Construct(self, call[1], call[2])

AddLanguageCall ==
    /\ last = Idle
    /\ \E self \in Detectors, call \in AddCalls :
          AddLanguage(self, call[1], call[2])

RemoveLanguageCall ==
    /\ last = Idle
    /\ \E self \in Detectors, lang_code \in RemoveCodes :
          RemoveLanguage(self, lang_code)

DetectCall ==
    /\ last = Idle
    /\ \E self \in Detectors, text \in Inputs : Detect(self, text)

AnalyzeCall ==
    /\ last = Idle
    /\ \E self \in Detectors, text \in Inputs : Analyze(self, text)

\* the calls on the core leave the ExternalDetector alone
Next ==
    \/ ConstructCall /\ UNCHANGED <<removed, external, external_last, calls>>
    \/ AddLanguageCall /\ UNCHANGED <<removed, external, external_last, calls>>
    \/ RemoveLanguageCall /\ UNCHANGED <<removed, external, external_last, calls>>
    \/ DetectCall /\ UNCHANGED <<removed, external, external_last, calls>>
    \/ AnalyzeCall /\ UNCHANGED <<removed, external, external_last, calls>>
    \/ Return /\ UNCHANGED <<external, external_last, calls>>

Spec == Init /\ [][Next]_vars

\* the same program, with the history of remove_language calls recorded
RemovedAfter(call) ==
    IF call.op = "remove_language"
    THEN [removed EXCEPT ![call.self] = @ \cup {call.lang_code}]
    ELSE IF call.op = "add_language"
         THEN [removed EXCEPT ![call.self] = @ \ {call.lang_code}]
         ELSE removed

NextHistory ==
    \/ ConstructCall /\ UNCHANGED <<removed, external, external_last, calls>>
    \/ AddLanguageCall /\ removed' = RemovedAfter(last')
                       /\ UNCHANGED <<external, external_last, calls>>
    \/ RemoveLanguageCall /\ removed' = RemovedAfter(last')
                          /\ UNCHANGED <<external, external_last, calls>>
    \/ DetectCall /\ UNCHANGED <<removed, external, external_last, calls>>
    \/ AnalyzeCall /\ UNCHANGED <<removed, external, external_last, calls>>
    \/ Return /\ UNCHANGED <<external, external_last, calls>>

SpecHistory == Init /\ [][NextHistory]_vars

\* the calls a caller makes on the ExternalDetector, each started when it is
\* between calls
ExternalConstructCall ==
    /\ external_last = Idle
    /\ \E use_fasttext \in BOOLEAN, use_langdetect \in BOOLEAN :
          \E fasttext_loads \in LibraryStates, langdetect_loads \in LibraryStates :
             \E threshold \in ExternalMinConfidences :
                ExternalConstruct(use_fasttext, use_langdetect, fasttext_loads,
                                  langdetect_loads, threshold)

ExternalDetectCall ==
    /\ external_last = Idle
    /\ \E text \in ExternalInputs, method \in Methods, env \in Environments :
          ExternalDetect(text, method, env)

ExternalGetLanguageCall ==
    /\ external_last = Idle
    /\ \E text \in ExternalInputs, method \in Methods, env \in Environments :
          ExternalGetLanguage(text, method, env)

core_vars == <<heap, detectors, languages, language_data, min_confidence,
               removed, mutations, last, calls>>

\* the calls on the ExternalDetector leave the core alone
NextExternal ==
    \/ ExternalConstructCall /\ UNCHANGED core_vars
    \/ ExternalDetectCall /\ UNCHANGED core_vars
    \/ ExternalGetLanguageCall /\ UNCHANGED core_vars
    \/ ExternalReturn /\ UNCHANGED core_vars

SpecExternal == Init /\ [][NextExternal]_vars

GetLanguageCall ==
    /\ last = Idle
    /\ \E self \in Detectors, text \in Inputs : GetLanguage(self, text)

\* the calls of Next, and get_language
NextQueries ==
    \/ ConstructCall /\ UNCHANGED <<removed, external, external_last, calls>>
    \/ AddLanguageCall /\ UNCHANGED <<removed, external, external_last, calls>>
    \/ RemoveLanguageCall /\ UNCHANGED <<removed, external, external_last, calls>>
    \/ DetectCall /\ UNCHANGED <<removed, external, external_last, calls>>
    \/ AnalyzeCall /\ UNCHANGED <<removed, external, external_last, calls>>
    \/ GetLanguageCall /\ UNCHANGED <<removed, external, external_last, calls>>
    \/ Return /\ UNCHANGED <<external, external_last, calls>>

SpecQueries == Init /\ [][NextQueries]_vars

LangLibDetectLanguageCall ==
    /\ last = Idle
    /\ \E text \in LangLibInputs : LangLibDetectLanguage(text)

LangLibGetConfidenceCall ==
    /\ last = Idle
    /\ \E text \in LangLibInputs : LangLibGetConfidence(text)

\* the calls on the two classifiers side by side: detectors as their
\* constructors leave them, get_language on them, and the calls on LangLib
NextLangLib ==
    \/ ConstructCall /\ UNCHANGED <<removed, external, external_last, calls>>
    \/ GetLanguageCall /\ UNCHANGED <<removed, external, external_last, calls>>
    \/ LangLibDetectLanguageCall /\ UNCHANGED <<removed, external, external_last, calls>>
    \/ LangLibGetConfidenceCall /\ UNCHANGED <<removed, external, external_last, calls>>
    \/ Return /\ UNCHANGED <<external, external_last, calls>>

SpecLangLib == Init /\ [][NextLangLib]_vars

BeginCallStep ==
    /\ last = Idle
    /\ \E t \in Threads, op \in {"detect", "analyze"} :
          \E self \in Detectors, text \in ConcurrentTexts(t) :
             BeginCall(t, op, self, text)

ExtractorStep == \E t \in Threads, extractor \in Extractors : ExtractStep(t, extractor)

CompleteCallStep == \E t \in Threads : CompleteCall(t)

ReturnCallStep == \E t \in Threads : ReturnCall(t)

NoCallInFlight == \A t \in Threads : calls[t] = NoCall

\* add_language and remove_language run while no call is in flight, one
\* fewer of them than under the other specifications
MutationsBeforeCalls == NoCallInFlight /\ mutations + 1 < MaxMutations

\* threads calling detect and analyze on detectors that are constructed and
\* changed only while no such call is in flight
NextConcurrent ==
    \/ NoCallInFlight /\ ConstructCall /\ UNCHANGED <<removed, external, external_last, calls>>
    \/ MutationsBeforeCalls /\ AddLanguageCall /\ UNCHANGED <<removed, external, external_last, calls>>
    \/ MutationsBeforeCalls /\ RemoveLanguageCall /\ UNCHANGED <<removed, external, external_last, calls>>
    \/ Return /\ UNCHANGED <<external, external_last, calls>>
    \/ BeginCallStep /\ UNCHANGED <<removed, external, external_last>>
    \/ ExtractorStep /\ UNCHANGED <<removed, external, external_last>>
    \/ CompleteCallStep /\ UNCHANGED <<removed, external, external_last>>
    \/ ReturnCallStep /\ UNCHANGED <<removed, external, external_last>>

SpecConcurrent == Init /\ [][NextConcurrent]_vars

\* d1 = LangDetector(min_confidence=0.0): a detector that answers with the
\* best language whatever its confidence
ConstructLenientCall ==
    /\ last = Idle
    /\ Construct("d1", None, 0)

\* the calls on the one detector d1 = LangDetector(min_confidence=0.0)
NextLenient ==
    \/ ConstructLenientCall /\ UNCHANGED <<removed, external, external_last, calls>>
    \/ AddLanguageCall /\ UNCHANGED <<removed, external, external_last, calls>>
    \/ RemoveLanguageCall /\ UNCHANGED <<removed, external, external_last, calls>>
    \/ DetectCall /\ UNCHANGED <<removed, external, external_last, calls>>
    \/ AnalyzeCall /\ UNCHANGED <<removed, external, external_last, calls>>
    \/ Return /\ UNCHANGED <<external, external_last, calls>>

SpecLenient == Init /\ [][NextLenient]_vars

(***************************************************************************)
(* Properties of detect and analyze.                                       *)
(***************************************************************************)
\* the detect call the caller is in has returned (not raised)
DetectReturned == last.op = "detect" /\ ~last.result.raised

\* the input has nothing to tokenise: it is empty, it is not a str, or none
\* of its characters is a word character
NothingToTokenise(text) ==
    \/ ~text.isStr
    \/ \A i \in 1..Len(text.chars) : text.chars[i] \notin WordChars

\* a confidence num / den lies in [0.0, 1.0]
InUnitInterval(confidence) ==
    \/ confidence[2] > 0 /\ 0 <= confidence[1] /\ confidence[1] <= confidence[2]
    \/ confidence[2] < 0 /\ confidence[2] <= confidence[1] /\ confidence[1] <= 0

\* C1: for every input that is empty, is not a string, or consists only of
\* punctuation and whitespace, detect does not raise and returns exactly
\* language 'unknown' with confidence 0.0, in every detector state.
C1_EmptyInputIsUnknown ==
    last.op = "detect" /\ NothingToTokenise(last.text)
        => /\ ~last.result.raised
           /\ last.result.language = "unknown"
           /\ last.result.confidence = <<0, 1>>

\* C1 happens: detect of a non-empty string of punctuation only, on a
\* detector whose profiles have been changed
C1_Witness ==
    /\ last.op = "detect"
    /\ last.text.isStr
    /\ Len(last.text.chars) >= 2
    /\ NothingToTokenise(last.text)
    /\ mutations > 0

\* C2: for a text with at least one token, if exactly one active language
\* has a positive unique-letter count then detect returns that language with
\* confidence exactly 0.95 (whatever min_confidence and the other counts
\* are); if none or more than one has, detect does not return via the
\* unique-letter shortcut.
C2_FastPath ==
    last.op = "detect" /\ ~NothingToTokenise(last.text)
        => LET counts == _count_unique_letters(last.self,
                                               _clean_text(last.text.chars))
               positive == {i \in 1..Len(counts) : counts[i].v > 0}
           IN  IF Cardinality(positive) = 1
               THEN /\ ~last.result.raised
                    /\ \A i \in positive : last.result.language = counts[i].k
                    /\ last.result.confidence = <<95, 100>>
               ELSE \/ last.result.raised
                    \/ last.result.path = "FULL_SCORING"

\* C2 happens: the shortcut answers on a detector whose min_confidence is
\* 1.0, for a text that also holds letters frequent in the language
C2_Witness ==
    /\ DetectReturned
    /\ last.result.path = "FAST_PATH_MATCH"
    /\ min_confidence[last.self] = 100
    /\ Len(last.text.chars) >= 2

\* C3: in full scoring with total score > 0 (the scores being those analyze
\* reports for the same text), detect returns the confidence
\* best_score / total; with it language 'unknown' when that confidence is
\* strictly below min_confidence, and the best-scoring language when it is
\* greater than or equal to min_confidence.
C3_Threshold ==
    DetectReturned /\ last.result.path = "FULL_SCORING"
        => LET scores == analyze(last.self, last.text).scores
               total == SumValues(scores)
               best == MaxEntry(scores)
           IN  total > 0
                  => /\ last.result.confidence = <<best.v, total>>
                     /\ best.v * 100 < min_confidence[last.self] * total
                           => last.result.language = "unknown"
                     /\ best.v * 100 >= min_confidence[last.self] * total
                           => last.result.language = best.k

\* C3 happens: full scoring answers 'unknown' with a confidence above 0.0
C3_Witness ==
    /\ DetectReturned
    /\ last.result.path = "FULL_SCORING"
    /\ last.result.language = "unknown"
    /\ last.result.confidence[1] > 0

\* the confidences an analyze result holds
AnalyzeConfidences(result) ==
    {result.confidence} \cup
    {result.top_languages[i].confidence : i \in 1..Len(result.top_languages)}

\* C4: the confidence detect returns, the confidence analyze returns and the
\* confidence of each top_languages entry lie in [0.0, 1.0], for every text
\* and every detector state reached through construction, add_language and
\* remove_language with non-negative weights.
C4_ConfidenceInUnitInterval ==
    /\ DetectReturned => InUnitInterval(last.result.confidence)
    /\ last.op = "analyze" /\ ~last.result.raised
                             /\ "confidence" \in DOMAIN last.result
          => \A c \in AnalyzeConfidences(last.result) : InUnitInterval(c)

\* C4 happens: analyze lists two languages with confidences strictly
\* between 0.0 and 1.0, on a detector that add_language has changed
C4_Witness ==
    /\ last.op = "analyze"
    /\ ~last.result.raised
    /\ "top_languages" \in DOMAIN last.result
    /\ Len(last.result.top_languages) >= 2
    /\ \A i \in 1..Len(last.result.top_languages) :
          /\ 0 < last.result.top_languages[i].confidence[1]
          /\ last.result.top_languages[i].confidence[1]
                < last.result.top_languages[i].confidence[2]
    /\ \E i \in 1..Len(language_data[last.self]) :
          language_data[last.self][i].k = "german"

(***************************************************************************)
(* Properties of construction, add_language and remove_language.           *)
(***************************************************************************)
\* C5: in every state reached by constructing detectors (default or
\* caller-supplied list) and calling add_language / remove_language on them
\* in any order, detect on any instance does not raise and returns a result
\* with a 'language' and a 'confidence' field, for every string text.
C5_DetectNeverRaises ==
    last.op = "detect" /\ last.text.isStr
        => /\ ~last.result.raised
           /\ {"language", "confidence"} \subseteq DOMAIN last.result

\* the step is an add_language or remove_language call
MutatingCall == last.op = "idle" /\ last'.op \in {"add_language", "remove_language"}

\* C6: add_language and remove_language called on one detector leave
\* unchanged the active language list and the profile mapping of every other
\* detector, the languages a later LangDetector() becomes active with, and
\* any list object the caller passed to a constructor.
C6_MutationsAreLocal ==
    [][MutatingCall
          => /\ \A d \in detectors \ {last'.self} :
                   /\ Languages(d)' = Languages(d)
                   /\ language_data'[d] = language_data[d]
             /\ heap'["DEFAULT_LANGUAGES"] = heap["DEFAULT_LANGUAGES"]
             /\ heap'["caller_list"] = heap["caller_list"]]_vars

\* C7: remove_language(id) returns True exactly when a profile for id was
\* active in the detector immediately before the call and False exactly when
\* none was; after the call id is in neither the active language list nor
\* the profile mapping.
C7_RemoveReportsProfile ==
    last.op = "remove_language"
        => /\ last.returned <=> last.had_profile
           /\ last.lang_code \notin Range(Languages(last.self))
           /\ ~Has(language_data[last.self], last.lang_code)

\* the languages an analyze result lists in top_languages
TopLanguages(result) ==
    IF "top_languages" \in DOMAIN result
    THEN {result.top_languages[i].language : i \in 1..Len(result.top_languages)}
    ELSE {}

\* C8: after remove_language(id) on a detector and until add_language(id)
\* is next called on it, no detect call on that detector returns language id
\* and no analyze call on it lists id in top_languages, whatever is done to
\* other detectors.
C8_RemovedStaysRemoved ==
    /\ DetectReturned => last.result.language \notin removed[last.self]
    /\ last.op = "analyze" /\ ~last.result.raised
          => TopLanguages(last.result) \cap removed[last.self] = {}

\* the number of times x occurs in a list
Occurs(list, x) == Cardinality({i \in 1..Len(list) : list[i] = x})

\* C9: after add_language(id, data), id occurs exactly once in the active
\* language list (appended at the end if new, in place if present), the
\* profile for id is the one built from data, and the profiles and the
\* relative order of all other languages are unchanged.
C9_AddIsUpsert ==
    [][\A self \in Detectors :
          last.op = "idle" /\ last'.op = "add_language" /\ last'.self = self
          => LET id == last'.lang_code
                 Others(list) == SelectSeq(list, LAMBDA x : x # id)
             IN  /\ Occurs(Languages(self)', id) = 1
                 /\ id \in Range(Languages(self))
                       => Languages(self)' = Languages(self)
                 /\ id \notin Range(Languages(self))
                       => Languages(self)' = Append(Languages(self), id)
                 /\ Get(language_data'[self], id) = LanguageData(id, last'.data)
                 /\ Others(Languages(self)') = Others(Languages(self))
                 /\ Del(language_data'[self], id) = Del(language_data[self], id)]_vars

\* the part of a detector's state that detect reads
DetectorState(d) == <<Languages(d), language_data[d], min_confidence[d]>>

AnalyzeReported ==
    last.op = "analyze" /\ ~last.result.raised
                        /\ "top_languages" \in DOMAIN last.result

C12_AnalyzeIsFullScoring ==
    last.op = "analyze" /\ ~NothingToTokenise(last.text)
        => LET d == detect(last.self, last.text)
           IN  /\ d.raised => last.result.raised
               /\ ~d.raised /\ d.path = "FULL_SCORING"
                     => /\ ~last.result.raised
                        /\ last.result.language = d.language
                        /\ last.result.confidence = d.confidence
               /\ ~last.result.raised
                     => LET scores == last.result.scores
                            total == SumValues(scores)
                        IN  IF total = 0
                            THEN /\ last.result.language = "unknown"
                                 /\ last.result.confidence = <<0, 1>>
                            ELSE /\ last.result.confidence
                                       = <<MaxEntry(scores).v, total>>
                                 /\ last.result.language
                                       = IF MaxEntry(scores).v * 100
                                              < min_confidence[last.self] * total
                                         THEN "unknown"
                                         ELSE MaxEntry(scores).k

\* C12 happens: analyze answers by full scoring, with a language, a text for
\* which detect takes the unique-letter shortcut
C12_Witness ==
    /\ AnalyzeReported
    /\ last.result.language # "unknown"
    /\ last.result.confidence # <<95, 100>>
    /\ detect(last.self, last.text).path = "FAST_PATH_MATCH"

\* C13: for empty, non-string or no-analyzable-content input, analyze does
\* not raise and returns a result whose language is 'unknown' and whose
\* confidence is 0.0.
C13_AnalyzeEmptyIsUnknown ==
    last.op = "analyze" /\ NothingToTokenise(last.text)
        => /\ ~last.result.raised
           /\ {"language", "confidence"} \subseteq DOMAIN last.result
           /\ last.result.language = "unknown"
           /\ last.result.confidence = <<0, 1>>

\* the occurrences of each pattern of a list in a text, overlapping ones
\* included, summed with list multiplicity
OverlappingCount(text, patterns) ==
    SumSeq([j \in 1..Len(patterns) |-> Cardinality(Occurrences(text, patterns[j]))])

\* C14: for every cleaned text and every language, the digram (trigram)
\* count equals the sum, over the patterns of the language's digrams
\* (trigrams) list with list multiplicity, of the number of occurrences of
\* the pattern in the cleaned text, overlapping occurrences all counted.
C14_NgramsCountOverlaps ==
    AnalyzeReported
        => LET cleaned == _clean_text(last.text.chars)
               ld == language_data[last.self]
               metrics == last.result.metrics
           IN  \A i \in 1..Len(ld) :
                  /\ Has(metrics.digrams, ld[i].k)
                  /\ Get(metrics.digrams, ld[i].k)
                        = OverlappingCount(cleaned, ld[i].v.digrams)
                  /\ Has(metrics.trigrams, ld[i].k)
                  /\ Get(metrics.trigrams, ld[i].k)
                        = OverlappingCount(cleaned, ld[i].v.trigrams)

\* the weight the code uses for a feature of a profile: the profile's own,
\* or the documented default when its weights map lacks the feature
DocumentedWeight(weights, feature) ==
    IF feature \in DOMAIN weights THEN weights[feature]
    ELSE CASE feature = "unique_letters" -> 20
           [] feature = "frequent_letters" -> 10
           [] feature = "word_endings" -> 15
           [] feature = "marker_words" -> 30
           [] feature = "digrams" -> 10
           [] feature = "trigrams" -> 12

\* C15: for each language with a profile, the weighted score analyze reports
\* is the sum over the six features of count * weight, the counts being the
\* metrics it reports (0 for a language a metric lacks) and each weight the
\* profile's own or, for a key its weights map lacks, the default 2.0, 1.0,
\* 1.5, 3.0, 1.0, 1.2.
C15_WeightedScore ==
    AnalyzeReported
        => LET ld == language_data[last.self]
               metrics == last.result.metrics
               Term(i, feature) ==
                   GetOr(metrics[feature], ld[i].k, 0)
                      * DocumentedWeight(ld[i].v.weights, feature)
           IN  \A i \in 1..Len(ld) :
                  /\ Has(last.result.scores, ld[i].k)
                  /\ Get(last.result.scores, ld[i].k)
                        = Term(i, "unique_letters") + Term(i, "frequent_letters")
                          + Term(i, "word_endings") + Term(i, "marker_words")
                          + Term(i, "digrams") + Term(i, "trigrams")

\* C15 happens: a profile with a partial weights map scores through a weight
\* of its own and through a default one, with a digram counted at weight 0
C15_Witness ==
    /\ AnalyzeReported
    /\ \E i \in 1..Len(language_data[last.self]) :
          LET k == language_data[last.self][i].k
              weights == language_data[last.self][i].v.weights
          IN  /\ DOMAIN weights = {"marker_words", "digrams"}
              /\ GetOr(last.result.metrics.marker_words, k, 0) > 0
              /\ GetOr(last.result.metrics.frequent_letters, k, 0) > 0
              /\ GetOr(last.result.metrics.digrams, k, 0) > 0

\* no feature of the text matched any language: every weighted score is 0
NothingMatched(scores) == \A i \in 1..Len(scores) : scores[i].v = 0

\* C16: when the full scoring of a text gives every language the score 0,
\* detect returns language 'unknown' with confidence 0.0, and analyze reports
\* language 'unknown', confidence 0.0 and no top language; neither raises.
C16_ZeroTotalIsUnknown ==
    /\ last.op = "detect"
          => LET scored == analyze(last.self, last.text)
             IN  ("scores" \in DOMAIN scored /\ NothingMatched(scored.scores))
                    => /\ ~last.result.raised
                       /\ last.result.language = "unknown"
                       /\ last.result.confidence = <<0, 1>>
    /\ (AnalyzeReported /\ NothingMatched(last.result.scores))
          => /\ last.result.language = "unknown"
             /\ last.result.confidence = <<0, 1>>
             /\ last.result.top_languages = <<>>

\* C16 happens in detect: a text with words reaches the full scoring of a
\* detector that has profiles, and nothing matches
C16_Witness ==
    /\ last.op = "detect"
    /\ ~last.result.raised
    /\ last.result.path = "FULL_SCORING"
    /\ last.result.confidence = <<0, 1>>
    /\ language_data[last.self] # <<>>

\* C16 happens in analyze: scores are reported for some language, all of them 0
C16_WitnessAnalyze ==
    /\ AnalyzeReported
    /\ last.result.scores # <<>>
    /\ NothingMatched(last.result.scores)

(***************************************************************************)
(* Properties of profiles.                                                 *)
(***************************************************************************)
\* the collections a profile keeps as sets, and those it keeps as lists
SetCollections == {"unique_letters", "frequent_letters", "marker_words"}

ListCollections == {"word_endings", "digrams", "trigrams"}

Collections == SetCollections \cup ListCollections

\* whether collection f of a profile is empty
IsEmptyCollection(profile, f) ==
    IF f \in SetCollections THEN profile[f] = {} ELSE profile[f] = <<>>

Unprofiled == "klingon"

\* C18: a constructor call whose list requests a language with neither a data
\* file nor a built-in profile completes, makes no profile for that language
\* and loads the built-in profile of every other language of the list; no
\* detector ever holds a profile for that language, and detect returns
\* 'unknown' or a language the detector has a profile for, so never that one.
C18_UnknownLanguageRequested ==
    /\ last.op = "__init__"
          => \A lang \in Range(Languages(last.self)) :
                IF lang \in DOMAIN BUILTIN_LANGUAGE_DATA
                THEN /\ Has(language_data[last.self], lang)
                     /\ Get(language_data[last.self], lang)
                           = LanguageData(lang, BUILTIN_LANGUAGE_DATA[lang])
                ELSE ~Has(language_data[last.self], lang)
    /\ \A self \in detectors : ~Has(language_data[self], Unprofiled)
    /\ (last.op = "detect" /\ ~last.result.raised)
          => /\ last.result.language # Unprofiled
             /\ \/ last.result.language = "unknown"
                \/ Has(language_data[last.self], last.result.language)

\* C18 happens: a detector whose list requests the language without a profile
\* detects another language of its list
C18_Witness ==
    /\ last.op = "detect"
    /\ Unprofiled \in Range(Languages(last.self))
    /\ Unprofiled \notin DOMAIN BUILTIN_LANGUAGE_DATA
    /\ ~last.result.raised
    /\ last.result.language = "russian"
    /\ last.result.path = "FULL_SCORING"

(***************************************************************************)
(* Properties of normalization.                                            *)
(***************************************************************************)
\* C19: the cleaned text of a string holds only lower-case letters, digits
\* and single spaces: the underscore too has become a space, no two spaces
\* are adjacent, and no space leads or trails.
C19_CleanTextIsAlphanumeric ==
    (last.op \in {"detect", "analyze"} /\ last.text.isStr)
        => LET cleaned_text == _clean_text(last.text.chars)
           IN  /\ \A i \in 1..Len(cleaned_text) :
                     cleaned_text[i] \in LowerLetters \cup Digits \cup {" "}
               /\ \A i \in 1..(Len(cleaned_text) - 1) :
                     ~(cleaned_text[i] = " " /\ cleaned_text[i + 1] = " ")
               /\ cleaned_text # <<>>
                     => /\ cleaned_text[1] # " "
                        /\ cleaned_text[Len(cleaned_text)] # " "

(***************************************************************************)
(* Properties of ExternalDetector.                                         *)
(***************************************************************************)
\* the detectors `method` consults gave a result for the text of the call
UnderlyingResult(call) ==
    LET fasttext == detect_fasttext(external, call.text, call.env) # <<>>
        langdetect == detect_langdetect(external, call.text, call.env) # <<>>
    IN  /\ call.text.isStr
        /\ Len(strip(call.text.chars)) >= 3
        /\ CASE call.method = "fasttext" -> fasttext
             [] call.method = "langdetect" -> langdetect
             [] OTHER -> fasttext \/ langdetect

\* C20: for every text and method, ExternalDetector.detect returns a result
\* with a top-level 'language' and a top-level 'confidence', and get_language
\* returns a language other than 'unknown' whenever a detector the method
\* consults gave a result.
C20_ExternalResultShape ==
    /\ external_last.op = "detect"
          => /\ Has(external_last.result, "language")
             /\ Has(external_last.result, "confidence")
    /\ (external_last.op = "get_language" /\ UnderlyingResult(external_last))
          => external_last.result # "unknown"

(***************************************************************************)
(* Properties of the detector state and of the extractors.                 *)
(***************************************************************************)
\* the keys of a dict, as a set
KeySet(dict) == Range(Keys(dict))

\* C22: the six extractor results analyze reports and the weighted scores
\* have one and the same key set, the languages the detector has profiles
\* for, and every count is a non-negative integer.
C22_MetricsShareKeys ==
    AnalyzeReported
        => LET metrics == last.result.metrics
               active == KeySet(language_data[last.self])
           IN  /\ KeySet(last.result.scores) = active
               /\ \A f \in DOMAIN metrics :
                     /\ KeySet(metrics[f]) = active
                     /\ \A i \in 1..Len(metrics[f]) : metrics[f][i].v \in Nat

\* C23: in every state, each identifier occurs at most once in a detector's
\* active language list, and the list holds exactly the identifiers that
\* have a profile in the detector's profile mapping.
C23_ListMatchesProfiles ==
    \A self \in detectors :
       /\ \A x \in Range(Languages(self)) : Occurs(Languages(self), x) = 1
       /\ Range(Languages(self)) = KeySet(language_data[self])

\* the endings of a profile that a token ends with
MatchingEndings(token, lang_data) ==
    {j \in 1..Len(lang_data.word_endings) :
        token = SubSeq(token, 1, Len(token) - Len(lang_data.word_endings[j]))
                   \o lang_data.word_endings[j]}

\* C24: for every language with a profile, the word_endings count analyze
\* reports is the number of tokens, with multiplicity, of length >= 3 that end
\* with at least one of the language's endings: one point per token however
\* many endings match, none for tokens of length 1 or 2, and so never more
\* than the number of tokens of length >= 3.
C24_WordEndingsCount ==
    AnalyzeReported
        => LET words == split(_clean_text(last.text.chars))
               long == {i \in 1..Len(words) : Len(words[i]) >= 3}
               ld == language_data[last.self]
           IN  \A p \in 1..Len(ld) :
                  LET counted == Get(last.result.metrics.word_endings, ld[p].k)
                  IN  /\ counted = SumSeq([i \in 1..Len(words) |->
                                      IF i \in long /\ MatchingEndings(words[i], ld[p].v) # {}
                                      THEN 1 ELSE 0])
                      /\ counted <= Cardinality(long)

\* C24 happens: the one token of a text has length 3 and ends with two
\* endings of a language, and counts once
C24_Witness ==
    /\ AnalyzeReported
    /\ LET words == split(_clean_text(last.text.chars))
           ld == language_data[last.self]
       IN  \E p \in 1..Len(ld) :
              /\ Len(words) = 1
              /\ Len(words[1]) = 3
              /\ Cardinality(MatchingEndings(words[1], ld[p].v)) = 2
              /\ Get(last.result.metrics.word_endings, ld[p].k) = 1

(***************************************************************************)
(* Properties of the choice of the best language.                          *)
(***************************************************************************)
\* detect has answered by full scoring with scores that are not all 0
FullyScored ==
    /\ DetectReturned
    /\ last.result.path = "FULL_SCORING"
    /\ last.result.confidence # <<0, 1>>

\* the position in the list of the first occurrence of x
FirstIndex(list, x) == CHOOSE i \in 1..Len(list) : list[i] = x /\ \A j \in 1..(i - 1) : list[j] # x

\* C25: when detect answers by full scoring with total > 0, the best language
\* is, of the languages of greatest score, the one that comes first in the
\* active language list; and add_language for a language the list holds
\* leaves the list, and so that language's place, as it was.
C25_TieIsFirstListed ==
    /\ [](FullyScored /\ min_confidence[last.self] = 0
            => LET scores == analyze(last.self, last.text).scores
                   list == Languages(last.self)
                   best == last.result.language
               IN  /\ Has(scores, best)
                   /\ best \in Range(list)
                   /\ \A i \in 1..Len(scores) :
                         /\ scores[i].v <= Get(scores, best)
                         /\ (scores[i].v = Get(scores, best) /\ scores[i].k \in Range(list))
                               => FirstIndex(list, best) <= FirstIndex(list, scores[i].k))
    /\ [][\A self \in Detectors :
             (last'.op = "add_language" /\ last'.self = self
                 /\ last'.lang_code \in Range(Languages(self)))
                 => /\ Languages(self)' = Languages(self)
                    /\ Keys(language_data'[self]) = Keys(language_data[self])]_vars

\* C25 happens: two languages share the greatest score, the first of them a
\* language whose profile add_language replaced, and detect answers with it
C25_Witness ==
    /\ FullyScored
    /\ last.result.language = "russian"
    /\ Get(language_data[last.self], "russian").unique_letters = {}
    /\ 2 * last.result.confidence[1] = last.result.confidence[2]

\* C28: when full scoring has total > 0, the confidence analyze reports is at
\* least 1/n for the n languages of the scores map: exactly 1 with one
\* language, and with two at least 1/2, equal to 1/2 exactly when the two
\* scores are equal, which under the default threshold 0.6 gives 'unknown'.
C28_ConfidenceAtLeastShare ==
    (AnalyzeReported /\ ~NothingMatched(last.result.scores))
        => LET scores == last.result.scores
               n == Len(scores)
               c == last.result.confidence
           IN  /\ c[1] * n >= c[2]
               /\ n = 1 => c[1] = c[2]
               /\ n = 2 => /\ 2 * c[1] = c[2] <=> scores[1].v = scores[2].v
                           /\ (2 * c[1] = c[2] /\ min_confidence[last.self] = 60)
                                 => last.result.language = "unknown"

\* C28 happens: the two languages of a detector with the default threshold
\* score the same, not 0
C28_Witness ==
    /\ AnalyzeReported
    /\ Len(last.result.scores) = 2
    /\ last.result.scores[1].v = last.result.scores[2].v
    /\ last.result.scores[1].v > 0
    /\ min_confidence[last.self] = 60
    /\ last.result.language = "unknown"

\* C28 happens with one language: the only language scores, with confidence 1
C28_WitnessSingle ==
    /\ AnalyzeReported
    /\ Len(last.result.scores) = 1
    /\ last.result.confidence = <<last.result.scores[1].v, last.result.scores[1].v>>
    /\ last.result.scores[1].v > 0

\* C27: whenever detect returns a language other than 'unknown', the
\* confidence it returns is at least the detector's min_confidence.
C27_LanguageMeetsThreshold ==
    (DetectReturned /\ last.result.language # "unknown")
        => last.result.confidence[1] * 100
              >= min_confidence[last.self] * last.result.confidence[2]

(***************************************************************************)
(* Frame of the queries.                                                   *)
(***************************************************************************)
\* C26: detect, analyze and get_language, whatever they return or raise,
\* leave every detector's active language list, profile mapping with every
\* profile's contents, and min_confidence as they were, and the list objects
\* and the set of detectors too.
C26_QueriesAreReadOnly ==
    [][(last.op = "idle" /\ last'.op \in {"detect", "analyze", "get_language"})
          => /\ \A d \in Detectors :
                   /\ languages'[d] = languages[d]
                   /\ language_data'[d] = language_data[d]
                   /\ min_confidence'[d] = min_confidence[d]
             /\ heap' = heap
             /\ detectors' = detectors]_vars

\* C26 happens: get_language has answered with a language on a detector that
\* add_language or remove_language changed before
C26_Witness ==
    /\ last.op = "get_language"
    /\ ~last.result.raised
    /\ last.result.value \notin {"unknown", "russian", "ukrainian"}
    /\ mutations > 0

(***************************************************************************)
(* Properties of LangLib.LangDetector.                                     *)
(***************************************************************************)
\* a detector constructed by LangDetector(), with the built-in russian and
\* ukrainian profiles
HasBuiltinProfiles(d) ==
    /\ d \in detectors
    /\ language_data[d] = _load_language_data(DEFAULT_LANGUAGES)
    /\ Languages(d) = DEFAULT_LANGUAGES
    /\ min_confidence[d] = DefaultMinConfidence

\* C21: for every text, LangLib's detect_language returns the language that
\* get_language returns on a detector constructed with the built-in russian
\* and ukrainian profiles.
C21_LangLibIsTwoProfileDetector ==
    last.op = "LangLib.detect_language"
        => \A d \in Detectors :
              HasBuiltinProfiles(d)
                 => LangDetector_get_language(d, last.text) = Returned(last.result)

\* C30: for every text, the language get_confidence reports is the one
\* detect_language returns: 'unknown' for both when the two scores are equal,
\* the same language when one language alone has unique letters.
C30_ConfidenceAgreesWithDetect ==
    last.op = "LangLib.get_confidence"
        => last.result.language = detect_language(last.text)

(***************************************************************************)
(* Calls interleaved on one detector.                                      *)
(***************************************************************************)
\* what the call a thread is in returns when it runs alone
Alone(call) ==
    IF call.op = "detect" THEN detect(call.self, call.text)
    ELSE analyze(call.self, call.text)

\* C29: detect and analyze calls interleaved on the same detector, with no
\* add_language or remove_language running meanwhile, each return what they
\* return when run alone, whatever the order in which a call evaluates its
\* extractors: a call writes its own count maps only.
C29_InterleavedCallsAsAlone ==
    \A t \in Threads :
        calls[t].pc = "returned" => calls[t].result = Alone(calls[t])

\* two calls on the same detector with different texts, one returned from the
\* full scoring while the other has count maps of its own
C29_Witness ==
    \E t \in Threads, u \in Threads :
        /\ calls[t].pc = "returned"
        /\ calls[u].pc = "extracting"
        /\ calls[t].self = calls[u].self
        /\ calls[t].text # calls[u].text
        /\ ~calls[t].result.raised
        /\ calls[t].op = "detect"
        /\ calls[t].result.path = "FULL_SCORING"
        /\ calls[t].result.language # "unknown"
        /\ \E e \in Extractors : calls[u].counts[e].evaluated

====
